---- MODULE Spec2Model ----
(***************************************************************************)
(* Single-file transfer of serial_file_transfer: FileSender and            *)
(* FileReceiver talking over the two directions of one serial link.        *)
(*                                                                         *)
(* The link is a byte stream.  Each direction is a sequence of items       *)
(* [f, rem]: a frame and the number of its bytes not yet consumed.  A      *)
(* port.read(size) takes any n <= size of the bytes in the stream (the     *)
(* serial timeout decides n); unpack_frame accepts the bytes only when     *)
(* they are exactly one whole frame.  Bytes of the file are the values     *)
(* 1..file_size, so every offset is recognisable; they are assumed not to  *)
(* contain an embedded frame, so a misaligned read never parses.           *)
(* Byte counts are the program's (a frame is 5 + payload bytes); file and  *)
(* chunk sizes are scaled down.                                            *)
(***************************************************************************)
EXTENDS Integers, Sequences, FiniteSets, TLC

\* ---- bounds of the model ------------------------------------------------
MaxFileSize == 4      \* file sizes 0..MaxFileSize
MaxChunk == 4         \* max_data_length values MinChunk..MaxChunk
MaxCorrupt == 1       \* frames the link may damage
MaxInject == 4        \* frames the arbitrary peer of SpecRx may send
MaxFiles == 2         \* files in the folder a batch sends
MaxBatchFileSize == 1 \* sizes of the files of a batch: 0..MaxBatchFileSize
MaxLink == 2          \* unread frames a batch receiver leaves in the link
MaxPeerRates == 2     \* rates in the list a probed peer advertises
MaxProbeOut == 2      \* probe frames a ProbeManager writes
MaxPayload == 258     \* bytes of the longest payload that is packed
MaxGarbage == 3       \* garbage bytes in front of a frame in a stream
MaxExtra == 2         \* bytes that follow a frame in a port
MaxRetryArg == 3      \* max_retry values given to retry_call: 0..MaxRetryArg
MaxCallers == 2       \* threads that call start() and stop() of an IoThread
MaxThreads == 2       \* reader threads the system lets an IoThread create
MaxFrames == 3        \* frames the reader threads parse
QueueCapacity == 2    \* frame_queue_size of the IoThread
MaxRelLen == 3        \* characters of a short relative path
MaxExisting == 2      \* paths that exist before create_safe_path is called

\* ---- program constants ----------------------------------------------------
REQUEST_FILE_SIZE == 97
REPLY_FILE_SIZE == 98
REQUEST_DATA == 99
SEND_DATA == 100
ACK == 101
NACK == 102
FRAME_HEADER_SIZE == 3
FRAME_CRC_SIZE == 2
FRAME_FORMAT_SIZE == FRAME_HEADER_SIZE + FRAME_CRC_SIZE
VAL_REQUEST_FILE == 21930
REQUEST_FILE_NAME == 81
REPLY_FILE_NAME == 82
MAX_FILE_NAME_LENGTH == 128
SeqMod == 65536
SizeMaxRetry == 3
\* times, in hundredths of a second
SIZE_BASE_DELAY == 20
DEFAULT_TIMEOUT == 10
DEFAULT_REQUEST_TIMEOUT == 30000

\* configuration values of the run (TransferConfig), scaled
MinChunk == 3
retry_count == 1
max_retries == 2

None == 0 - 1

Min(a, b) == IF a < b THEN a ELSE b

\* exponential_backoff: the delay before retry number attempt (from 0), without
\* jitter and with the largest jitter (a tenth of the delay)
exponential_backoff(base, attempt) ==
  {base * 2 ^ attempt + jitter : jitter \in {0, (base * 2 ^ attempt) \div 10}}

\* variant: one more attempt is made than max_retry + 1
retries_exhausted_OneMore(attempt, max_retry) == attempt = max_retry + 1

\* retry_call: the attempt numbered attempt (from 0) was the last one
retries_exhausted(attempt, max_retry) == attempt = max_retry

VARIABLES
  s2r, r2s,            \* the two directions of the link
  corrupted,           \* frames damaged by the link so far
  \* FileSender
  sPc, file_size_s, send_size, seq_id, sAddr, sLen, sAttempt,
  s_max_data_length, negotiated_chunk_size,
  \* FileReceiver
  rPc, file_size, recv_size, expected_seq, rAddr, rLen, rAttempt,
  max_data_length,
  rWaited,             \* time spent in the size handshake in progress
  \* destination file
  disk, handle, exists,
  \* history
  acked, injected,
  \* SenderFileManager
  bsPc, file_list, bsName,
  \* ReceiverFileManager
  brPc, save_path, overdue,
  \* the folders: the files the sender scanned, the files the receiver stored
  source, dest,
  anyFailed,           \* a start_transfer of the batch receiver returned False
  \* ProbeManager and its port
  session_id, target_baudrate, pm_negotiated_chunk_size, baudrate,
  probeIn,             \* the probe frame that has arrived and is not yet handled
  probeOut,            \* the probe frames written to the port so far
  probeCall,           \* the arguments of the last negotiate_capability call
  probeResult,         \* what the last call of the ProbeManager returned
  probePc,             \* send_probe_request: where the call is
  probeWaited,         \* seconds since send_probe_request was called
  \* FrameHandler and the streaming unpackers, on bytes
  fCmd, fData,         \* the command and the payload given to pack_frame
  packed,              \* the bytes pack_frame returned, as they are now
  flipped,             \* the position of the byte of packed that was changed
  unpacked,            \* what unpack_frame returned
  framePc,             \* where the use of the FrameHandler is
  port,                \* the bytes waiting in the serial port
  buffer,              \* the buffer of the streaming unpacker
  yielded,             \* the frames the streaming unpacker has yielded
  consumed,            \* the bytes taken off the front of the stream
  garbage,             \* the garbage bytes that were put before the frame
  unpacker,            \* which streaming unpacker runs
  readResult,          \* what read_frame returned
  \* negotiate_chunk_size: the arguments, the result, whether it was called
  chunk_s, chunk_r, chunk_result, chunkPc,
  \* retry_call
  rcPc,                \* where the call is: "call", "sleep", "returned"
  rcAttempt,           \* the loop variable attempt
  rcLog,               \* what func returned, call by call
  rcSleeps,            \* the waits slept so far
  rcResult,            \* what retry_call returned
  rcMaxRetry, rcBase,  \* the arguments max_retry and base_delay
  \* IoThread
  is_open,             \* serial_manager.is_open
  running, stop_event, \* _running, _stop_event
  thread,              \* _thread: the reader thread created last, 0 for None
  frame_queue, frames_received, frames_dropped,
  alive,               \* the reader threads that have not ended
  started,             \* the reader threads created so far
  rdPc, rdFrame,       \* each reader thread: its position, the frame it queues
  produced,            \* the frames parsed so far (they are numbered from 1)
  callPc, callRet,     \* each caller: where its start() or stop() is, what
                       \* its last call returned
  stopped,             \* a stop() has returned True and no start() has run since
  consPc,              \* the consumer: where its get_frame() is
  returned,            \* the frames get_frame() has returned
  \* create_safe_path
  relative_path,       \* the argument relative_path
  on_disk,             \* the paths for which Path.exists() is True
  safe_path,           \* the path create_safe_path returned
  pathPc,              \* where the call is: "call", "done", "raised"
  \* the ProbeManager of the sending peer in the rate switch
  tx_baudrate,         \* the rate of the sender's port
  txPc                 \* switch_baudrate: "call", "wait_ack", "switched",
                       \* "failed"

linkVars == <<s2r, r2s, corrupted>>
senderVars == <<sPc, file_size_s, send_size, seq_id, sAddr, sLen, sAttempt,
                s_max_data_length, negotiated_chunk_size>>
receiverVars == <<rPc, file_size, recv_size, expected_seq, rAddr, rLen,
                  rAttempt, max_data_length, rWaited>>
fileVars == <<disk, handle, exists>>
histVars == <<acked, injected>>
\* the state outside the single-file engines
batchVars == <<bsPc, file_list, bsName, brPc, save_path, overdue, source, dest,
               anyFailed>>
probeVars == <<session_id, target_baudrate, pm_negotiated_chunk_size, baudrate,
               probeIn, probeOut, probeCall, probeResult, probePc,
               probeWaited>>
frameVars == <<fCmd, fData, packed, flipped, unpacked, framePc, port, buffer,
               yielded, consumed, garbage, unpacker, readResult>>
\* the components that are examined on their own
chunkVars == <<chunk_s, chunk_r, chunk_result, chunkPc>>
retryVars == <<rcPc, rcAttempt, rcLog, rcSleeps, rcResult, rcMaxRetry, rcBase>>
ioVars == <<is_open, running, stop_event, thread, frame_queue, frames_received,
            frames_dropped, alive, started, rdPc, rdFrame, produced, callPc,
            callRet, stopped, consPc, returned>>
pathVars == <<relative_path, on_disk, safe_path, pathPc>>
switchVars == <<tx_baudrate, txPc>>
extVars == <<pathVars, switchVars>>
unitVars == <<frameVars, chunkVars, retryVars, ioVars, extVars>>
otherVars == <<batchVars, probeVars, unitVars>>
vars == <<linkVars, senderVars, receiverVars, fileVars, histVars, otherVars>>

\* ---- frames ---------------------------------------------------------------
\* pack_frame: cmd, payload length, payload fields
Frame(cmd, plen, a, b, data) ==
  [cmd |-> cmd, plen |-> plen, a |-> a, b |-> b, data |-> data]

pack_frame(cmd, plen, a, b, data) == Frame(cmd, plen, a, b, data)

FileSizeRequest == pack_frame(REQUEST_FILE_SIZE, 2, VAL_REQUEST_FILE, 0, <<>>)
\* variant: the size sent is one less than the file's size
FileSizeReply_OffByOne(size) ==
  [cmd |-> REPLY_FILE_SIZE, plen |-> 4, a |-> size - 1, b |-> 0, data |-> <<>>]

\* _send_file_size: the 4-byte size of the file
FileSizeReply(size) == pack_frame(REPLY_FILE_SIZE, 4, size, 0, <<>>)
DataRequest(addr, length) == pack_frame(REQUEST_DATA, 6, addr, length, <<>>)
DataFrame(seq, data) == pack_frame(SEND_DATA, 2 + Len(data), seq, 0, data)
AckFrame(cmd, seq) == pack_frame(cmd, 2, seq, 0, <<>>)
ChunkNack(seq, length) == pack_frame(NACK, 4, seq, length, <<>>)

FileNameRequest == pack_frame(REQUEST_FILE_NAME, 2, VAL_REQUEST_FILE, 0, <<>>)

\* a REPLY_FILE_NAME frame with the given payload bytes
FileNameReply(payload) ==
  pack_frame(REPLY_FILE_NAME, Len(payload), 0, 0, payload)

FrameBytes(f) == FRAME_FORMAT_SIZE + f.plen

NoFrame == Frame(None, 0, 0, 0, <<>>)

Item(f) == [f |-> f, rem |-> FrameBytes(f)]

\* SerialManager.write: the frame's bytes are appended to the stream
write(ch, f) == Append(ch, Item(f))

RECURSIVE TotalBytes(_)
TotalBytes(ch) == IF ch = <<>> THEN 0 ELSE Head(ch).rem + TotalBytes(Tail(ch))

RECURSIVE DropBytes(_, _)
DropBytes(ch, n) ==
  IF n = 0 \/ ch = <<>> THEN ch
  ELSE IF Head(ch).rem <= n THEN DropBytes(Tail(ch), n - Head(ch).rem)
  ELSE <<[Head(ch) EXCEPT !.rem = @ - n]>> \o Tail(ch)

RECURSIVE Boundaries(_, _)
\* the byte counts at which a whole number of the stream's items ends
Boundaries(ch, sofar) ==
  IF ch = <<>> THEN {}
  ELSE {sofar + Head(ch).rem} \cup Boundaries(Tail(ch), sofar + Head(ch).rem)

\* the byte counts one port.read(size) can return: size bytes when the stream
\* has them; fewer when the serial timeout expires first, which happens with
\* nothing read or in the silence after a write (the bytes of one write are
\* sent back to back)
ReadCounts(ch, size) ==
  {0} \cup {n \in Boundaries(ch, 0) : n <= size}
      \cup (IF TotalBytes(ch) >= size THEN {size} ELSE {})

\* unpack_frame on the n bytes read: a frame only when the bytes are one
\* whole frame (declared length = actual length, checksum intact)
unpack_frame(ch, n) ==
  IF n > 0 /\ ch # <<>> /\ Head(ch).rem = FrameBytes(Head(ch).f) /\ n = Head(ch).rem
  THEN Head(ch).f
  ELSE NoFrame

\* the time a port.read(size) that returns n bytes has blocked: the whole
\* serial timeout unless all size bytes were there
ReadTime(n, size) == IF n < size THEN DEFAULT_TIMEOUT ELSE 0

\* FrameHandler.read_frame(port, size) when the port returns n bytes
read_frame(ch, n) == [frame |-> unpack_frame(ch, n), rest |-> DropBytes(ch, n)]

\* ---- the source file ------------------------------------------------------
FileData(size) == [i \in 1..size |-> i]

get_file_data(size, addr, length) ==
  SubSeq(FileData(size), addr + 1, Min(addr + length, size))

get_effective_chunk_size(neg, mdl) == IF neg # None THEN neg ELSE mdl


\* ---- file names and paths -----------------------------------------------------
\* a name is the sequence of its UTF-8 bytes; a path is the sequence of its
\* components from the root
NUL == 0
DOT == 46
SLASH == 47
LETTER == 101
OUTSIDE == 120

\* n copies of the byte b
Repeat(b, n) == [i \in 1 .. n |-> b]

\* struct.pack("<H", n)
PackH(n) == <<n % 256, n \div 256>>

\* send_filename: the payload of the REPLY_FILE_NAME frame for a name
filename_payload(name) ==
  LET encoded_name == SubSeq(name, 1, Min(Len(name), MAX_FILE_NAME_LENGTH))
  IN PackH(Len(encoded_name)) \o encoded_name

RECURSIVE rstrip(_, _)
\* bytes.rstrip: the trailing bytes equal to b are removed
rstrip(bytes, b) ==
  IF bytes # <<>> /\ bytes[Len(bytes)] = b
  THEN rstrip(SubSeq(bytes, 1, Len(bytes) - 1), b)
  ELSE bytes

\* bytes.decode("utf-8") raises (the names of the model are ASCII; a byte
\* from 128 to 191 at the start of a character is invalid)
DecodeRaises(bytes) == \E i \in 1 .. Len(bytes) : bytes[i] >= 128

\* receive_filename on the payload of a REPLY_FILE_NAME frame: the name, or
\* no name (ok = FALSE) when decoding raises
decode_filename(payload) ==
  [ok |-> ~DecodeRaises(rstrip(payload, NUL)), name |-> rstrip(payload, NUL)]

\* the name split at "/" as pathlib does it: the runs of bytes between
\* separators, in order (a run starts at 1 and after every separator)
SplitName(bytes) ==
  LET starts == {i \in 1 .. Len(bytes) + 1 : i = 1 \/ bytes[i - 1] = SLASH}
      start(k) == CHOOSE i \in starts :
                    Cardinality({j \in starts : j < i}) = k - 1
      stop(i) == CHOOSE j \in i .. Len(bytes) + 1 :
                   /\ j = Len(bytes) + 1 \/ bytes[j] = SLASH
                   /\ \A m \in i .. j - 1 : bytes[m] # SLASH
  IN [k \in 1 .. Cardinality(starts) |->
        SubSeq(bytes, start(k), stop(start(k)) - 1)]

\* the components pathlib keeps: neither empty nor "."
PathParts(name) ==
  SelectSeq(SplitName(name), LAMBDA c : c # <<>> /\ c # <<DOT>>)

\* folder_path / filename: an absolute name replaces the folder
JoinPath(base, name) ==
  IF name # <<>> /\ Head(name) = SLASH THEN PathParts(name)
  ELSE base \o PathParts(name)

RECURSIVE Resolve(_, _)
\* the file the operating system reaches through a path: ".." steps up
Resolve(path, sofar) ==
  IF path = <<>> THEN sofar
  ELSE IF Head(path) = <<DOT, DOT>>
  THEN Resolve(Tail(path), SubSeq(sofar, 1, Len(sofar) - 1))
  ELSE Resolve(Tail(path), Append(sofar, Head(path)))

\* path lies inside the directory base
Inside(path, base) ==
  Len(path) > Len(base) /\ SubSeq(path, 1, Len(base)) = base

\* the folder the receiver stores into; the path of a single-file receiver
folder_path == <<<<LETTER>>>>
SinglePath == JoinPath(folder_path, <<LETTER>>)

\* save_path.open("wb") raises: a NUL byte in the path, or the path is the
\* folder itself or one of its ancestors
OpenRaises(path) ==
  \/ \E i \in 1 .. Len(path) : \E j \in 1 .. Len(path[i]) : path[i][j] = NUL
  \/ (Len(Resolve(path, <<>>)) <= Len(folder_path)
       /\ Resolve(path, <<>>) = SubSeq(folder_path, 1, Len(Resolve(path, <<>>))))

\* ---- probe protocol: data structures ------------------------------------------
PROBE_BAUDRATE == 115200
PROBE_REQUEST == 65
PROBE_RESPONSE == 66
PROBE_PROTOCOL_VERSION == 1
\* seconds
PROBE_TIMEOUT == 3
CAPABILITY_NEGO == 67
CAPABILITY_ACK == 68
SWITCH_BAUDRATE == 69
SWITCH_ACK == 70
MIN_CHUNK_SIZE == 512
MAX_CHUNK_SIZE == 16384
SWITCH_DELAY_MS == 100

Max(a, b) == IF a > b THEN a ELSE b

Abs(a) == IF a < 0 THEN 0 - a ELSE a

\* ProbeManager.supported_baudrates, by priority
supported_baudrates ==
  <<6000000, 4000000, 3000000, 2000000, 1728000, 921600, 460800, 230400,
    115200>>

Supported(rate) ==
  \E i \in 1 .. Len(supported_baudrates) : supported_baudrates[i] = rate

BAUDRATE_CHUNK_SIZE_MAP ==
  [b \in {9600, 19200, 38400, 57600, 115200, 230400, 460800, 921600,
          1000000, 1500000, 1728000} |->
     IF b <= 57600 THEN 512
     ELSE IF b <= 460800 THEN 1024
     ELSE IF b = 921600 THEN 2048
     ELSE IF b = 1000000 THEN 4096
     ELSE 8192]

calculate_recommended_chunk_size(rate) ==
  IF rate \in DOMAIN BAUDRATE_CHUNK_SIZE_MAP
  THEN BAUDRATE_CHUNK_SIZE_MAP[rate]
  ELSE LET closest_baudrate ==
             CHOOSE k \in DOMAIN BAUDRATE_CHUNK_SIZE_MAP :
               \A j \in DOMAIN BAUDRATE_CHUNK_SIZE_MAP :
                 \/ Abs(k - rate) < Abs(j - rate)
                 \/ (Abs(k - rate) = Abs(j - rate) /\ k <= j)
           recommended ==
             IF rate > closest_baudrate
             THEN Min(BAUDRATE_CHUNK_SIZE_MAP[closest_baudrate] * 2,
                      MAX_CHUNK_SIZE)
             ELSE BAUDRATE_CHUNK_SIZE_MAP[closest_baudrate]
       IN Max(MIN_CHUNK_SIZE, Min(recommended, MAX_CHUNK_SIZE))

\* variant: the larger of the two sizes is taken
negotiate_chunk_size_Larger(sender_recommended, receiver_max) ==
  Max(MIN_CHUNK_SIZE,
      Min(Max(sender_recommended, receiver_max), MAX_CHUNK_SIZE))

negotiate_chunk_size(sender_recommended, receiver_max) ==
  Max(MIN_CHUNK_SIZE,
      Min(Min(sender_recommended, receiver_max), MAX_CHUNK_SIZE))

\* the fields of the dataclass CapabilityNegoData (none has a default) and the
\* keyword arguments negotiate_capability constructs it with
CapabilityNegoFields ==
  {"session_id", "transfer_mode", "file_count", "total_size",
   "selected_baudrate", "chunk_size", "root_path"}

NegoArguments ==
  {"session_id", "transfer_mode", "file_count", "total_size",
   "selected_baudrate", "chunk_size"}

\* a dataclass constructor raises TypeError when a field without a default
\* gets no argument
ConstructorRaises(fields, arguments) == fields \ arguments # {}

\* the payloads, packed: len is the number of bytes of the payload
NoMsg == [cmd |-> None]

CapabilityNego(sid, mode, count, total, rate, chunk, root_path) ==
  [cmd |-> CAPABILITY_NEGO, len |-> 27 + Len(root_path), session_id |-> sid,
   transfer_mode |-> mode, file_count |-> count, total_size |-> total,
   selected_baudrate |-> rate, chunk_size |-> chunk, root_path |-> root_path]

CapabilityAck(sid, status, chunk) ==
  [cmd |-> CAPABILITY_ACK, len |-> 9, session_id |-> sid,
   accept_status |-> status, negotiated_chunk_size |-> chunk]

ProbeRequest(device_id, version, seed) ==
  [cmd |-> PROBE_REQUEST, len |-> 9, device_id |-> device_id,
   protocol_version |-> version, random_seed |-> seed]

ProbeResponse(device_id, version, seed, rates) ==
  [cmd |-> PROBE_RESPONSE, len |-> 11 + 4 * Len(rates),
   device_id |-> device_id, protocol_version |-> version,
   random_seed |-> seed, supported_baudrates |-> rates]

SwitchBaudrate(sid, rate, delay) ==
  [cmd |-> SWITCH_BAUDRATE, len |-> 10, session_id |-> sid,
   new_baudrate |-> rate, switch_delay_ms |-> delay]

SwitchAck(sid) == [cmd |-> SWITCH_ACK, len |-> 4, session_id |-> sid]

\* a payload cut short by one byte: unpack returns None
Truncated(msg) == [msg EXCEPT !.len = @ - 1]

\* unpack succeeds: the payload has the length of the structure
Unpacks(msg) ==
  IF msg.cmd = CAPABILITY_NEGO THEN msg.len = 27 + Len(msg.root_path)
  ELSE IF msg.cmd = CAPABILITY_ACK THEN msg.len = 9
  ELSE IF msg.cmd = SWITCH_BAUDRATE THEN msg.len = 10
  ELSE IF msg.cmd = PROBE_REQUEST THEN msg.len = 9
  ELSE IF msg.cmd = PROBE_RESPONSE
  THEN msg.len >= 11 + 4 * Len(msg.supported_baudrates)
  ELSE msg.cmd = SWITCH_ACK /\ msg.len = 4

NoCall == [op |-> "none"]

\* no ProbeManager takes part
NoProbe ==
  /\ session_id = None /\ target_baudrate = None
  /\ pm_negotiated_chunk_size = None /\ baudrate = PROBE_BAUDRATE
  /\ probeIn = NoMsg /\ probeOut = <<>>
  /\ probeCall = NoCall /\ probeResult = None
  /\ probePc = "idle" /\ probeWaited = 0

\* ---- frames as bytes ------------------------------------------------------------
RECURSIVE SumBytes(_)
\* sum(data), by halves
SumBytes(data) ==
  IF Len(data) = 0 THEN 0
  ELSE IF Len(data) = 1 THEN data[1]
  ELSE LET half == Len(data) \div 2
       IN SumBytes(SubSeq(data, 1, half))
          + SumBytes(SubSeq(data, half + 1, Len(data)))

\* variant: the sum is not reduced to 16 bits
calculate_checksum_NoMask(data) == SumBytes(data)

\* calculate_checksum: the sum of the bytes, & 0xFFFF
calculate_checksum(data) == SumBytes(data) % 65536

\* struct.unpack("<H", b)
UnpackU16(b) == b[1] + 256 * b[2]

\* what pack_frame returns when struct.pack raises: None
NoBytes == <<None>>

\* what unpack_frame returns when it fails: None
NoUnpack == [cmd |-> None, data_len |-> 0, data |-> <<>>, crc |-> 0]

\* FrameHandler.pack_frame(cmd, data): "<BH" header, data, "<H" checksum
FrameHandler_pack_frame(cmd, data) ==
  IF cmd \notin 0 .. 255 \/ Len(data) > 65535 THEN NoBytes
  ELSE <<cmd>> \o PackH(Len(data)) \o data
       \o PackH(calculate_checksum(data))

\* variant: only the low byte of the checksum is compared
crc_matches_LowByte(received_crc, calculated_crc) ==
  received_crc % 256 = calculated_crc % 256

\* unpack_frame, the comparison of the received and the calculated checksum
crc_matches(received_crc, calculated_crc) == received_crc = calculated_crc

\* FrameHandler.unpack_frame(frame_data)
FrameHandler_unpack_frame(frame_data) ==
  IF frame_data = NoBytes \/ Len(frame_data) < FRAME_FORMAT_SIZE THEN NoUnpack
  ELSE LET cmd == frame_data[1]
           data_len == UnpackU16(SubSeq(frame_data, 2, 3))
           actual_data_len ==
             Len(frame_data) - FRAME_HEADER_SIZE - FRAME_CRC_SIZE
           data == SubSeq(frame_data, FRAME_HEADER_SIZE + 1,
                          FRAME_HEADER_SIZE + data_len)
           received_crc ==
             UnpackU16(SubSeq(frame_data, FRAME_HEADER_SIZE + data_len + 1,
                              FRAME_HEADER_SIZE + data_len + FRAME_CRC_SIZE))
       IN IF data_len # actual_data_len THEN NoUnpack
          ELSE IF ~crc_matches(received_crc, calculate_checksum(data))
          THEN NoUnpack
          ELSE [cmd |-> cmd, data_len |-> data_len, data |-> data,
                crc |-> received_crc]

\* FrameHandler.read_frame(port, size) when port.read(size) returns read_data:
\* (cmd, data), or (None, None)
FrameHandler_read_frame(read_data) ==
  LET unpacked_frame == FrameHandler_unpack_frame(read_data)
  IN IF read_data = <<>> \/ unpacked_frame = NoUnpack
     THEN [cmd |-> None, data |-> <<>>]
     ELSE [cmd |-> unpacked_frame.cmd, data |-> unpacked_frame.data]

Drop(bytes, n) == SubSeq(bytes, n + 1, Len(bytes))

\* IoThread._parse_frame_from_buffer(buffer): None ("wait"), (None, rest)
\* ("drop") or (frame, rest) ("frame")
parse_frame_from_buffer(buf) ==
  IF Len(buf) < FRAME_HEADER_SIZE + FRAME_CRC_SIZE
  THEN [kind |-> "wait", frame |-> NoUnpack, rest |-> buf]
  ELSE LET data_len == UnpackU16(SubSeq(buf, 2, 3))
           frame_len == FRAME_HEADER_SIZE + data_len + FRAME_CRC_SIZE
           frame_bytes == SubSeq(buf, 1, frame_len)
           parsed == FrameHandler_unpack_frame(frame_bytes)
       IN IF Len(buf) < frame_len
          THEN [kind |-> "wait", frame |-> NoUnpack, rest |-> buf]
          ELSE IF parsed = NoUnpack
          THEN [kind |-> "drop", frame |-> NoUnpack, rest |-> Drop(buf, 1)]
          ELSE [kind |-> "frame", frame |-> parsed,
                rest |-> Drop(buf, frame_len)]

\* ProbeManager._receive_probe_frame, one turn of the inner loop: break
\* ("wait"), continue after a failed unpack_frame or a frame of another
\* command ("drop"), or return the data ("frame")
receive_probe_frame_step(buf, expected_cmd) ==
  IF Len(buf) < FRAME_HEADER_SIZE + FRAME_CRC_SIZE
  THEN [kind |-> "wait", frame |-> NoUnpack, rest |-> buf]
  ELSE LET data_len == UnpackU16(SubSeq(buf, 2, 3))
           frame_len == FRAME_HEADER_SIZE + data_len + FRAME_CRC_SIZE
           frame_bytes == SubSeq(buf, 1, frame_len)
           parsed == FrameHandler_unpack_frame(frame_bytes)
       IN IF Len(buf) < frame_len
          THEN [kind |-> "wait", frame |-> NoUnpack, rest |-> buf]
          ELSE IF parsed = NoUnpack \/ parsed.cmd # expected_cmd
          THEN [kind |-> "drop", frame |-> NoUnpack,
                rest |-> Drop(buf, frame_len)]
          ELSE [kind |-> "frame", frame |-> parsed,
                rest |-> Drop(buf, frame_len)]

\* the FrameHandler and the streaming unpackers are not examined
NoFrames ==
  /\ fCmd = 0 /\ fData = <<>> /\ packed = <<>> /\ flipped = 0
  /\ unpacked = NoUnpack /\ framePc = "off"
  /\ port = <<>> /\ buffer = <<>> /\ yielded = <<>> /\ consumed = 0
  /\ garbage = <<>> /\ unpacker = "none"
  /\ readResult = [cmd |-> None, data |-> <<>>]

\* negotiate_chunk_size is not called
NoChunk ==
  chunk_s = 0 /\ chunk_r = 0 /\ chunk_result = None /\ chunkPc = "off"

\* retry_call is not called
NoRetry ==
  /\ rcPc = "off" /\ rcAttempt = 0 /\ rcLog = <<>> /\ rcSleeps = <<>>
  /\ rcResult = None /\ rcMaxRetry = 0 /\ rcBase = 0

Callers == 1 .. MaxCallers
Threads == 1 .. MaxThreads

\* the state after IoThread.__init__; no call is made
NewIoThread ==
  /\ running = FALSE /\ stop_event = FALSE /\ thread = 0
  /\ frame_queue = <<>> /\ frames_received = 0 /\ frames_dropped = 0
  /\ alive = {} /\ started = 0
  /\ rdPc = [t \in Threads |-> "none"] /\ rdFrame = [t \in Threads |-> 0]
  /\ produced = 0
  /\ callPc = [c \in Callers |-> "idle"]
  /\ callRet = [c \in Callers |-> [op |-> "none", value |-> FALSE]]
  /\ stopped = FALSE /\ consPc = "idle" /\ returned = {}

\* no IoThread is used
NoIo == is_open = FALSE /\ NewIoThread

\* create_safe_path is not called
NoPath ==
  relative_path = <<>> /\ on_disk = {} /\ safe_path = <<>> /\ pathPc = "off"

\* no sending ProbeManager switches its rate
NoSwitch == tx_baudrate = PROBE_BAUDRATE /\ txPc = "off"

NoExt == NoPath /\ NoSwitch

NoUnits == NoFrames /\ NoChunk /\ NoRetry /\ NoIo /\ NoExt

\* ---- initial state ------------------------------------------------------------
StartSeqs == {0, SeqMod - 1}
ChunkSizes == MinChunk .. MaxChunk
Negotiated == {None, MinChunk - 1}

\* the state after FileReceiver.__init__, with an empty link
InitReceiver ==
  /\ s2r = <<>> /\ r2s = <<>> /\ corrupted = 0
  /\ rPc = "start"
  /\ file_size = 0 /\ recv_size = 0
  /\ expected_seq \in StartSeqs
  /\ rAddr = 0 /\ rLen = 0 /\ rAttempt = 0 /\ rWaited = 0
  /\ max_data_length \in ChunkSizes
  /\ disk = <<>> /\ handle = "none" /\ exists = FALSE
  /\ acked = <<>> /\ injected = 0

\* the state after FileSender.__init__ and init_file
InitSender ==
  /\ sPc = "start"
  /\ file_size_s \in 0 .. MaxFileSize
  /\ send_size = 0
  /\ seq_id = expected_seq
  /\ sAddr = 0 /\ sLen = 0 /\ sAttempt = 0
  /\ s_max_data_length \in ChunkSizes
  /\ negotiated_chunk_size \in Negotiated

\* no batch managers: FileSender and FileReceiver are used on their own
NoBatch ==
  /\ bsPc = "off" /\ file_list = <<>> /\ bsName = <<>>
  /\ brPc = "off" /\ save_path = SinglePath /\ overdue = FALSE
  /\ source = <<>> /\ dest = {} /\ anyFailed = FALSE

Init == InitReceiver /\ InitSender /\ NoBatch /\ NoProbe /\ NoUnits

\* ---- the link -----------------------------------------------------------------
\* the frame at the head of the stream is complete and undamaged
Whole(ch) == ch # <<>> /\ Head(ch).rem = FrameBytes(Head(ch).f)

\* the bytes of a frame whose checksum no longer matches
Damaged(item) == [f |-> NoFrame, rem |-> item.rem]

\* a bit flips in the frame that will be read next: unpack_frame will find
\* the checksum wrong and the reader discards the bytes
Corrupt ==
  /\ corrupted < MaxCorrupt
  /\ \/ Whole(s2r) /\ s2r' = <<Damaged(Head(s2r))>> \o Tail(s2r) /\ r2s' = r2s
     \/ Whole(r2s) /\ r2s' = <<Damaged(Head(r2s))>> \o Tail(r2s) /\ s2r' = s2r
  /\ corrupted' = corrupted + 1
  /\ UNCHANGED <<senderVars, receiverVars, fileVars, histVars>>
  /\ UNCHANGED otherVars

\* ---- FileSender ---------------------------------------------------------------
sConfig == <<file_size_s, s_max_data_length, negotiated_chunk_size>>

\* start_transfer: nothing to send
S_Start ==
  /\ sPc = "start"
  /\ sPc' = IF file_size_s = 0 THEN "failed" ELSE "wait_size"
  /\ UNCHANGED <<linkVars, send_size, seq_id, sAddr, sLen, sAttempt, sConfig,
                 receiverVars, fileVars, histVars>>
  /\ UNCHANGED otherVars

\* wait_for_file_size_request: one read of the loop that returns bytes
S_WaitSize ==
  /\ sPc = "wait_size"
  /\ \E n \in ReadCounts(r2s, 6 + 2) \ {0} :
       LET r == read_frame(r2s, n)
       IN /\ r2s' = r.rest
          /\ IF r.frame.cmd = REQUEST_FILE_SIZE /\ r.frame.a = VAL_REQUEST_FILE
             THEN /\ s2r' = write(s2r, FileSizeReply(file_size_s))
                  /\ sPc' = IF send_size < file_size_s THEN "serve"
                            ELSE "done"
             ELSE /\ s2r' = s2r /\ sPc' = sPc
  /\ UNCHANGED <<corrupted, send_size, seq_id, sAddr, sLen, sAttempt, sConfig,
                 receiverVars, fileVars, histVars>>
  /\ UNCHANGED otherVars

\* wait_for_file_size_request: request_timeout elapsed
S_WaitSizeTimeout ==
  /\ sPc = "wait_size"
  /\ sPc' = "failed"
  /\ UNCHANGED <<linkVars, send_size, seq_id, sAddr, sLen, sAttempt, sConfig,
                 receiverVars, fileVars, histVars>>
  /\ UNCHANGED otherVars

\* _wait_for_data_request: one read that returns bytes, and what follows it
S_Serve ==
  /\ sPc = "serve"
  /\ \E n \in ReadCounts(r2s, 6 + 4 + 2) \ {0} :
       LET r == read_frame(r2s, n)
           addr == r.frame.a
           length == r.frame.b
           effective_chunk_size ==
             get_effective_chunk_size(negotiated_chunk_size, s_max_data_length)
           clamped == IF addr + length > file_size_s THEN file_size_s - addr
                      ELSE length
       IN /\ r2s' = r.rest
          /\ IF r.frame.cmd # REQUEST_DATA
             THEN UNCHANGED <<s2r, sPc, sAddr, sLen, sAttempt>>
             ELSE IF length > effective_chunk_size
             THEN /\ s2r' = write(s2r, ChunkNack(seq_id, s_max_data_length))
                  /\ UNCHANGED <<sPc, sAddr, sLen, sAttempt>>
             ELSE IF addr + length > file_size_s /\ addr > file_size_s
             THEN /\ sPc' = "failed"
                  /\ UNCHANGED <<s2r, sAddr, sLen, sAttempt>>
             ELSE /\ s2r' = write(s2r, DataFrame(seq_id,
                                   get_file_data(file_size_s, addr, clamped)))
                  /\ sAddr' = addr /\ sLen' = clamped /\ sAttempt' = 0
                  /\ sPc' = "ack"
  /\ UNCHANGED <<corrupted, send_size, seq_id, sConfig, receiverVars, fileVars,
                 histVars>>
  /\ UNCHANGED otherVars

\* variant: an attempt that ended without the ACK counts as confirmed
S_AttemptFailed_Advance ==
  /\ seq_id' = (seq_id + 1) % SeqMod
  /\ send_size' = sAddr + sLen
  /\ sPc' = IF sAddr + sLen < file_size_s THEN "serve" ELSE "done"
  /\ UNCHANGED <<s2r, sAttempt, acked>>

\* retry_call around _write_and_wait_ack: an attempt ended without the ACK;
\* the next attempt writes the same frame again
S_AttemptFailed ==
  /\ IF retries_exhausted(sAttempt, retry_count)
     THEN /\ sPc' = "failed" /\ UNCHANGED <<s2r, sAttempt>>
     ELSE /\ sAttempt' = sAttempt + 1
          /\ s2r' = write(s2r, DataFrame(seq_id,
                            get_file_data(file_size_s, sAddr, sLen)))
          /\ sPc' = sPc
  /\ UNCHANGED <<send_size, seq_id, acked>>

\* variant: the cursor is set to the start of the confirmed chunk
NextSendSize_NoLength(addr, length) == addr

\* variant: the sequence number is not reduced modulo 2^16
NextSeq_NoWrap(seq) == seq + 1

\* the send cursor after a confirmed chunk
NextSendSize(addr, length) == addr + length

\* the sequence number after a confirmed chunk
NextSeq(seq) == (seq + 1) % SeqMod

\* _write_and_wait_ack: one read of the ACK loop that returns bytes, and the
\* code of _send_data_package, _wait_for_data_request and start_transfer that
\* follows the ACK
S_Ack ==
  /\ sPc = "ack"
  /\ \E n \in ReadCounts(r2s, 6 + 2) \ {0} :
       LET r == read_frame(r2s, n)
       IN /\ r2s' = r.rest
          /\ IF r.frame.cmd = ACK /\ r.frame.a = seq_id
             THEN /\ seq_id' = NextSeq(seq_id)
                  /\ send_size' = NextSendSize(sAddr, sLen)
                  /\ acked' = Append(acked,
                       [seq |-> r.frame.a,
                        len |-> Len(get_file_data(file_size_s, sAddr, sLen))])
                  /\ sPc' = IF NextSendSize(sAddr, sLen) < file_size_s
                            THEN "serve" ELSE "done"
                  /\ UNCHANGED <<s2r, sAttempt>>
             ELSE IF r.frame.cmd = NACK /\ r.frame.a = seq_id
             THEN S_AttemptFailed
             ELSE UNCHANGED <<s2r, sPc, sAttempt, send_size, seq_id,
                              acked>>
  /\ UNCHANGED <<corrupted, sAddr, sLen, sConfig, receiverVars, fileVars, injected>>
  /\ UNCHANGED otherVars

\* _write_and_wait_ack: request_timeout elapsed without the ACK
S_AckTimeout ==
  /\ sPc = "ack"
  /\ S_AttemptFailed
  /\ UNCHANGED <<r2s, corrupted, sAddr, sLen, sConfig, receiverVars, fileVars,
                 injected>>
  /\ UNCHANGED otherVars

\* ---- FileReceiver -------------------------------------------------------------
\* variant: a sequence number below the expected one is acknowledged again
ack_cmd_AcceptOld(seq, expected) == IF seq <= expected THEN ACK ELSE NACK

\* receive_data_package: the reply to a SEND_DATA with sequence number seq
ack_cmd(seq, expected) == IF seq = expected THEN ACK ELSE NACK

\* the expected sequence number after an accepted chunk
NextExpected(expected) == (expected + 1) % SeqMod

\* save_path.stat().st_size of the closed file
StatSize(written) == Len(written)

\* the request length start_transfer computes
RequestLen(remain_len, mdl) == Min(remain_len, mdl)

\* start_transfer, first attempt of _try_get_size: send_file_size_request
R_Start ==
  /\ rPc = "start"
  /\ r2s' = write(r2s, FileSizeRequest)
  /\ rPc' = "size" /\ rAttempt' = 0 /\ rWaited' = 0
  /\ UNCHANGED <<s2r, corrupted, senderVars, file_size, recv_size, expected_seq,
                 rAddr, rLen, max_data_length, fileVars, histVars>>
  /\ UNCHANGED otherVars

\* the while loop of start_transfer after recv bytes are confirmed: either the
\* next REQUEST_DATA goes out (out: what this step already wrote), or the file
\* is closed and its size checked; closeRaises: close() raises an OSError
R_Loop(out, recv, written, closeRaises) ==
  IF recv < file_size'
  THEN /\ closeRaises = FALSE
       /\ rAddr' = recv
       /\ rLen' = RequestLen(file_size' - recv, max_data_length)
       /\ rAttempt' = 0
       /\ r2s' = write(out, DataRequest(recv,
                         RequestLen(file_size' - recv, max_data_length)))
       /\ rPc' = "data"
       /\ handle' = "open" /\ exists' = TRUE
  ELSE /\ r2s' = out
       /\ handle' = "closed"
       /\ UNCHANGED <<rAddr, rLen, rAttempt>>
       /\ IF closeRaises
          THEN rPc' = "failed" /\ exists' = FALSE
          ELSE /\ exists' = TRUE
               /\ rPc' = IF StatSize(written) # file_size' THEN "failed"
                         ELSE "done"

\* receive_file_size inside retry_call(_try_get_size, max_retry=3), then the
\* opening of the destination file
R_Size ==
  /\ rPc = "size"
  /\ \E n \in ReadCounts(s2r, 6 + 4), closeRaises \in BOOLEAN :
       LET r == read_frame(s2r, n)
           isReply == r.frame.cmd = REPLY_FILE_SIZE
           blocked == ReadTime(n, 6 + 4)
       IN /\ s2r' = r.rest
          /\ file_size' = IF isReply THEN r.frame.a ELSE file_size
          /\ IF isReply /\ r.frame.a > 0 /\ OpenRaises(save_path)
             THEN /\ closeRaises = FALSE
                  /\ rPc' = "failed" /\ rWaited' = 0
                  /\ UNCHANGED <<r2s, rAddr, rLen, rAttempt, fileVars>>
             ELSE IF isReply /\ r.frame.a > 0
             THEN /\ disk' = <<>>
                  /\ rWaited' = 0
                  /\ R_Loop(r2s, recv_size, <<>>, closeRaises)
             ELSE /\ closeRaises = FALSE
                  /\ UNCHANGED <<rAddr, rLen, fileVars>>
                  /\ IF retries_exhausted(rAttempt, SizeMaxRetry)
                     THEN /\ rPc' = "failed" /\ UNCHANGED <<r2s, rAttempt>>
                          /\ rWaited' = rWaited + blocked
                     ELSE /\ rAttempt' = rAttempt + 1
                          /\ \E delay \in exponential_backoff(SIZE_BASE_DELAY,
                                                               rAttempt) :
                               rWaited' = rWaited + blocked + delay
                          /\ r2s' = write(r2s, FileSizeRequest)
                          /\ rPc' = rPc
  /\ UNCHANGED <<corrupted, senderVars, recv_size, expected_seq, max_data_length,
                 acked, injected>>
  /\ UNCHANGED otherVars

\* _receive_chunk_with_retry: an attempt failed (out: r2s after this step's
\* own replies); after the last retry start_transfer closes and deletes the file
R_AttemptFailed(out) ==
  /\ UNCHANGED <<rAddr, rLen, disk>>
  /\ IF retries_exhausted(rAttempt, max_retries)
     THEN /\ rPc' = "failed" /\ handle' = "closed" /\ exists' = FALSE
          /\ r2s' = out /\ UNCHANGED rAttempt
     ELSE /\ rAttempt' = rAttempt + 1
          /\ r2s' = write(out, DataRequest(rAddr, rLen))
          /\ rPc' = rPc /\ UNCHANGED <<handle, exists>>

\* receive_data_package after the REQUEST_DATA of _try_receive, and the code of
\* start_transfer that follows its result
R_Data ==
  /\ rPc = "data"
  /\ \E n \in ReadCounts(s2r, 6 + max_data_length), closeRaises \in BOOLEAN :
       LET r == read_frame(s2r, n)
           f == r.frame
           reply == write(r2s, AckFrame(ack_cmd(f.a, expected_seq), f.a))
       IN /\ s2r' = r.rest
          /\ UNCHANGED file_size
          /\ IF f.cmd = NACK
             THEN /\ closeRaises = FALSE
                  /\ max_data_length' = IF f.plen >= 4 THEN f.b
                                        ELSE max_data_length
                  /\ R_AttemptFailed(r2s)
                  /\ UNCHANGED <<recv_size, expected_seq>>
             ELSE IF f.cmd # SEND_DATA
             THEN /\ closeRaises = FALSE
                  /\ R_AttemptFailed(r2s)
                  /\ UNCHANGED <<recv_size, expected_seq, max_data_length>>
             ELSE IF ack_cmd(f.a, expected_seq) = NACK
             THEN /\ closeRaises = FALSE
                  /\ R_AttemptFailed(reply)
                  /\ UNCHANGED <<recv_size, expected_seq, max_data_length>>
             ELSE /\ recv_size' = recv_size + Len(f.data)
                  /\ disk' = disk \o f.data
                  /\ expected_seq' = NextExpected(expected_seq)
                  /\ R_Loop(reply, recv_size + Len(f.data), disk \o f.data,
                            closeRaises)
                  /\ UNCHANGED max_data_length
  /\ UNCHANGED <<corrupted, senderVars, acked, injected, rWaited>>
  /\ UNCHANGED otherVars

\* ---- an arbitrary peer (the receiver against any frames) -----------------------
Bytes(start, k) == [i \in 1 .. k |-> start + i]

PeerSizes == 0 .. 2
PeerLens == 1 .. 2

PeerFrames ==
  {FileSizeReply(size) : size \in PeerSizes}
  \cup {DataFrame(seq, Bytes(recv_size, k)) :
          seq \in {expected_seq, (expected_seq + SeqMod - 1) % SeqMod},
          k \in PeerLens}
  \cup {ChunkNack(expected_seq, c) : c \in {MinChunk, MaxChunk + 1}}

\* the peer writes a frame to the link
P_Inject ==
  /\ rPc \in {"size", "data"}
  /\ injected < MaxInject
  /\ s2r = <<>>
  /\ \E f \in PeerFrames : s2r' = write(s2r, f)
  /\ injected' = injected + 1
  /\ UNCHANGED <<r2s, corrupted, senderVars, receiverVars, fileVars, acked>>
  /\ UNCHANGED otherVars

\* the peer reads what the receiver wrote
P_Drain ==
  /\ r2s # <<>>
  /\ r2s' = <<>>
  /\ UNCHANGED <<s2r, corrupted, senderVars, receiverVars, fileVars, histVars>>
  /\ UNCHANGED otherVars

\* ---- SenderFileManager ---------------------------------------------------------
\* the names a scanned folder may hold and the folders of the model
BatchNames == {<<LETTER>>, Repeat(LETTER, MAX_FILE_NAME_LENGTH + 1)}

BatchFiles == [name : BatchNames, size : 0 .. MaxBatchFileSize]

Folders ==
  UNION {{b \in [1 .. n -> BatchFiles] :
            \A i, j \in 1 .. n : i < j => b[i].name # b[j].name} :
         n \in 0 .. MaxFiles}

\* _scan_files: the names of the files, then the end marker ""
scan_files(folder) == [i \in 1 .. Len(folder) |-> folder[i].name] \o <<<<>>>>

\* file_path.stat().st_size of the file called name
SizeOf(folder, name) ==
  (CHOOSE f \in {folder[i] : i \in 1 .. Len(folder)} : f.name = name).size

senderEngine == <<sPc, file_size_s, send_size, seq_id, sAddr, sLen, sAttempt,
                  s_max_data_length, negotiated_chunk_size>>

\* start_batch_send: get_next_filename, at the start and after a start_transfer
\* or init_file that returned (either result: the loop continues)
B_S_Next ==
  /\ bsPc = "next" \/ (bsPc = "transfer" /\ sPc \in {"done", "failed"})
  /\ IF file_list = <<>>
     THEN bsPc' = "failed" /\ UNCHANGED <<file_list, bsName>>
     ELSE /\ bsName' = Head(file_list)
          /\ file_list' = Tail(file_list)
          /\ bsPc' = "wait_name"
  /\ sPc' = "idle"
  /\ UNCHANGED <<linkVars, file_size_s, send_size, seq_id, sAddr, sLen, sAttempt,
                 sConfig, receiverVars, fileVars, histVars, brPc, save_path,
                 overdue, source, dest, anyFailed>>
  /\ UNCHANGED <<probeVars, unitVars>>

\* wait_for_filename_request: one read of the loop that returns bytes; then
\* send_filename and, for a file, init_file and the call of start_transfer
B_S_WaitName ==
  /\ bsPc = "wait_name"
  /\ \E n \in ReadCounts(r2s, 6 + 2) \ {0} :
       LET r == read_frame(r2s, n)
       IN /\ r2s' = r.rest
          /\ IF r.frame.cmd # REQUEST_FILE_NAME
             THEN UNCHANGED <<s2r, bsPc, sPc, send_size, file_size_s>>
             ELSE /\ s2r' = write(s2r, FileNameReply(filename_payload(bsName)))
                  /\ IF bsName = <<>>
                     THEN /\ bsPc' = "done"
                          /\ UNCHANGED <<sPc, send_size, file_size_s>>
                     ELSE /\ bsPc' = "transfer"
                          /\ send_size' = 0
                          /\ file_size_s' = SizeOf(source, bsName)
                          /\ sPc' = "start"
  /\ UNCHANGED <<corrupted, seq_id, sAddr, sLen, sAttempt, s_max_data_length,
                 negotiated_chunk_size, receiverVars, fileVars, histVars,
                 file_list, bsName, brPc, save_path, overdue, source, dest,
                 anyFailed>>
  /\ UNCHANGED <<probeVars, unitVars>>

\* wait_for_filename_request: request_timeout elapsed
B_S_WaitNameTimeout ==
  /\ bsPc = "wait_name"
  /\ bsPc' = "failed"
  /\ UNCHANGED <<linkVars, senderEngine, receiverVars, fileVars, histVars,
                 file_list, bsName, brPc, save_path, overdue, source, dest,
                 anyFailed>>
  /\ UNCHANGED <<probeVars, unitVars>>

\* ---- ReceiverFileManager -------------------------------------------------------
\* the folder after a start_transfer that ended with the file at path present
\* (holding data) or absent
Stored(folder, path, present, data) ==
  {d \in folder : d.path # path}
    \cup (IF present THEN {[path |-> path, data |-> data]} ELSE {})

\* start_batch_receive, loop head: time.time() - start_time > request_timeout
batch_timed_out(late) == late

\* start_batch_receive: the head of the loop, at the start, after a name that
\* did not arrive and after a start_transfer that returned: the overall
\* timeout check, then send_filename_request
B_R_Request ==
  /\ brPc = "loop" \/ (brPc = "transfer" /\ rPc \in {"done", "failed"})
  /\ anyFailed' = (anyFailed \/ (brPc = "transfer" /\ rPc = "failed"))
  /\ dest' = IF brPc = "transfer" /\ handle # "none"
             THEN Stored(dest, Resolve(save_path, <<>>), exists, disk)
             ELSE dest
  /\ rPc' = "idle" /\ rWaited' = 0
  /\ IF batch_timed_out(overdue)
     THEN brPc' = "failed" /\ r2s' = r2s
     ELSE /\ Len(r2s) < MaxLink
          /\ brPc' = "name_wait" /\ r2s' = write(r2s, FileNameRequest)
  /\ UNCHANGED <<s2r, corrupted, senderVars, file_size, recv_size, expected_seq,
                 rAddr, rLen, rAttempt, max_data_length, fileVars,
                 histVars, bsPc, file_list, bsName, save_path, overdue, source>>
  /\ UNCHANGED <<probeVars, unitVars>>

\* the name the batch receiver stores a received file under
batch_save_path(filename) == JoinPath(folder_path, filename)

\* receive_filename, then the rest of the loop body: no name, the end marker,
\* or init_receive_params and the call of start_transfer
B_R_Name ==
  /\ brPc = "name_wait"
  /\ \E n \in ReadCounts(s2r, 6 + MAX_FILE_NAME_LENGTH) :
       LET r == read_frame(s2r, n)
           got == decode_filename(r.frame.data)
           path == batch_save_path(got.name)
           old == {d \in dest : d.path = Resolve(path, <<>>)}
       IN /\ s2r' = r.rest
          /\ IF r.frame.cmd # REPLY_FILE_NAME \/ ~got.ok
             THEN /\ brPc' = "loop"
                  /\ UNCHANGED <<save_path, rPc, file_size, recv_size, fileVars>>
             ELSE IF got.name = <<>>
             THEN /\ brPc' = "done"
                  /\ UNCHANGED <<save_path, rPc, file_size, recv_size, fileVars>>
             ELSE /\ brPc' = "transfer"
                  /\ save_path' = path
                  /\ file_size' = 0 /\ recv_size' = 0
                  /\ rPc' = "start"
                  /\ handle' = "none"
                  /\ exists' = (old # {})
                  /\ disk' = IF old # {} THEN (CHOOSE d \in old : TRUE).data
                             ELSE <<>>
  /\ UNCHANGED <<r2s, corrupted, senderVars, expected_seq, rAddr, rLen, rAttempt,
                 max_data_length, rWaited, histVars, bsPc, file_list, bsName,
                 overdue, source, dest, anyFailed>>
  /\ UNCHANGED <<probeVars, unitVars>>

\* more than request_timeout has passed since start_batch_receive began
TimePasses ==
  /\ brPc \in {"name_wait", "transfer"}
  /\ ~overdue
  /\ overdue' = TRUE
  /\ UNCHANGED <<linkVars, senderVars, receiverVars, fileVars, histVars, bsPc,
                 file_list, bsName, brPc, save_path, source, dest, anyFailed>>
  /\ UNCHANGED <<probeVars, unitVars>>

\* the names an arbitrary peer sends: the end marker, a plain name, a name
\* that steps out of the folder, an absolute name
PeerNames ==
  {<<>>, <<LETTER>>, <<DOT, DOT, SLASH, OUTSIDE>>, <<SLASH, OUTSIDE>>}

\* the peer answers a name request: the name bytes as the payload
P_InjectName ==
  /\ brPc = "name_wait"
  /\ injected < MaxInject
  /\ s2r = <<>>
  /\ \E name \in PeerNames : s2r' = write(s2r, FileNameReply(name))
  /\ injected' = injected + 1
  /\ UNCHANGED <<r2s, corrupted, senderVars, receiverVars, fileVars, acked,
                 otherVars>>

\* ---- specifications -------------------------------------------------------------
Next ==
  \/ S_Start \/ S_WaitSize \/ S_WaitSizeTimeout \/ S_Serve \/ S_Ack
  \/ S_AckTimeout
  \/ R_Start \/ R_Size \/ R_Data
  \/ Corrupt

Spec == Init /\ [][Next]_vars

\* every call in progress goes on: a pending read returns or its timeout
\* expires, a loop takes its next turn (the link itself owes nothing)
Fairness ==
  /\ WF_vars(S_Start) /\ WF_vars(S_WaitSize) /\ WF_vars(S_WaitSizeTimeout)
  /\ WF_vars(S_Serve) /\ WF_vars(S_Ack) /\ WF_vars(S_AckTimeout)
  /\ WF_vars(R_Start) /\ WF_vars(R_Size) /\ WF_vars(R_Data)

SpecLive == Init /\ [][Next]_vars /\ Fairness

\* a batch: SenderFileManager and ReceiverFileManager over a link that
\* delivers every frame; both engines idle until a name has been exchanged
InitEngines ==
  /\ s2r = <<>> /\ r2s = <<>> /\ corrupted = 0
  /\ rPc = "idle" /\ file_size = 0 /\ recv_size = 0 /\ expected_seq = 0
  /\ rAddr = 0 /\ rLen = 0 /\ rAttempt = 0 /\ rWaited = 0
  /\ max_data_length = MinChunk
  /\ disk = <<>> /\ handle = "none" /\ exists = FALSE
  /\ acked = <<>> /\ injected = 0
  /\ sPc = "idle" /\ file_size_s = 0 /\ send_size = 0 /\ seq_id = 0
  /\ sAddr = 0 /\ sLen = 0 /\ sAttempt = 0
  /\ s_max_data_length = MinChunk /\ negotiated_chunk_size = None

InitBatch ==
  /\ InitEngines /\ NoProbe /\ NoUnits
  /\ source \in Folders
  /\ file_list = scan_files(source)
  /\ bsPc = "next" /\ bsName = <<>>
  /\ brPc = "loop" /\ save_path = <<>> /\ overdue = FALSE
  /\ dest = {} /\ anyFailed = FALSE

\* (no name that arrives can be opened, so no REQUEST_DATA is sent: the steps
\* of the data exchange are never enabled in a batch and are left out)
NextBatch ==
  \/ B_S_Next \/ B_S_WaitName \/ B_S_WaitNameTimeout
  \/ S_Start \/ S_WaitSize \/ S_WaitSizeTimeout \/ S_Serve
  \/ B_R_Request \/ B_R_Name \/ TimePasses
  \/ R_Start \/ R_Size

SpecBatch == InitBatch /\ [][NextBatch]_vars

\* every call of a batch in progress goes on (time owes nothing)
FairnessBatch ==
  /\ WF_vars(B_S_Next) /\ WF_vars(B_S_WaitName) /\ WF_vars(B_S_WaitNameTimeout)
  /\ WF_vars(S_Start) /\ WF_vars(S_WaitSize) /\ WF_vars(S_WaitSizeTimeout)
  /\ WF_vars(S_Serve)
  /\ WF_vars(B_R_Request) /\ WF_vars(B_R_Name)
  /\ WF_vars(R_Start) /\ WF_vars(R_Size)

SpecBatchLive == InitBatch /\ [][NextBatch]_vars /\ FairnessBatch

\* the batch receiver alone, against an arbitrary peer
InitRxBatch ==
  /\ InitEngines /\ NoProbe /\ NoUnits
  /\ source = <<>> /\ file_list = <<>>
  /\ bsPc = "off" /\ bsName = <<>>
  /\ brPc = "loop" /\ save_path = <<>> /\ overdue = FALSE
  /\ dest = {} /\ anyFailed = FALSE

NextRxBatch ==
  \/ B_R_Request \/ B_R_Name \/ TimePasses
  \/ R_Start \/ R_Size \/ R_Data
  \/ P_InjectName \/ P_Inject \/ P_Drain

SpecRxBatch == InitRxBatch /\ [][NextRxBatch]_vars

\* ---- ProbeManager ---------------------------------------------------------------
\* the session ids _generate_session_id draws, the rates and lists a peer
\* advertises, the chunk sizes a peer recommends
SessionIds == {268435456, 305419896}
PeerRates == {921600, 115200, 9600}
PeerLists == UNION {[1 .. n -> PeerRates] : n \in 0 .. MaxPeerRates}
ProbeChunks == {256, 2048}

\* what the peer does with a CAPABILITY_NEGO of session sid
PeerAnswers == {"none", "accept", "reject", "other_session", "malformed"}

PeerAck(answer, sid, chunk) ==
  IF answer = "accept" THEN CapabilityAck(sid, 1, chunk)
  ELSE IF answer = "reject" THEN CapabilityAck(sid, 0, MIN_CHUNK_SIZE)
  ELSE IF answer = "other_session" THEN CapabilityAck(sid + 1, 1, chunk)
  ELSE IF answer = "malformed" THEN Truncated(CapabilityAck(sid, 1, chunk))
  ELSE NoMsg

\* negotiate_capability, the for loop: the first rate of own that is in peer
select_baudrate(own, peer) ==
  LET common(i) == \E j \in 1 .. Len(peer) : peer[j] = own[i]
  IN IF \E i \in 1 .. Len(own) : common(i)
     THEN own[CHOOSE i \in 1 .. Len(own) :
                common(i) /\ \A k \in 1 .. (i - 1) : ~common(k)]
     ELSE None

engineVars == <<linkVars, senderVars, receiverVars, fileVars, histVars,
                batchVars, unitVars>>

\* negotiate_capability(file_count, total_size, supported_baudrates), the whole
\* call: the choice of the rate, the CAPABILITY_NEGO and the wait for the
\* peer's CAPABILITY_ACK
negotiate_capability ==
  /\ Len(probeOut) < MaxProbeOut
  /\ \E file_count \in 1 .. 2, peer \in PeerLists, sid \in SessionIds,
        answer \in PeerAnswers :
       LET selected_baudrate == select_baudrate(supported_baudrates, peer)
           transfer_mode == IF file_count > 1 THEN 2 ELSE 1
           chunk == calculate_recommended_chunk_size(selected_baudrate)
           ack == PeerAck(answer, sid,
                          negotiate_chunk_size(chunk, MAX_CHUNK_SIZE))
       IN /\ probeCall' = [op |-> "negotiate_capability",
                           file_count |-> file_count,
                           supported_baudrates |-> peer, answer |-> answer]
          /\ IF selected_baudrate = None
             THEN /\ probeResult' = None
                  /\ UNCHANGED <<session_id, target_baudrate,
                                 pm_negotiated_chunk_size, probeOut>>
             ELSE /\ session_id' = sid
                  /\ target_baudrate' = selected_baudrate
                  /\ IF ConstructorRaises(CapabilityNegoFields, NegoArguments)
                     THEN /\ probeResult' = None
                          /\ UNCHANGED <<pm_negotiated_chunk_size, probeOut>>
                     ELSE /\ probeOut' =
                               Append(probeOut,
                                      CapabilityNego(sid, transfer_mode,
                                                     file_count, 1024,
                                                     selected_baudrate, chunk,
                                                     <<>>))
                          /\ IF /\ ack.cmd # None /\ Unpacks(ack)
                                /\ ack.session_id = sid
                                /\ ack.accept_status = 1
                             THEN /\ pm_negotiated_chunk_size' =
                                       ack.negotiated_chunk_size
                                  /\ probeResult' = selected_baudrate
                             ELSE /\ probeResult' = None
                                  /\ UNCHANGED pm_negotiated_chunk_size
  /\ UNCHANGED <<baudrate, probeIn, probePc, probeWaited, engineVars>>

\* the probe frames a peer sends to a receiving ProbeManager
PeerProbeFrames ==
  LET negos == {CapabilityNego(sid, 1, 1, 1024, rate, chunk, <<>>) :
                  sid \in SessionIds, rate \in PeerRates, chunk \in ProbeChunks}
      switches == {SwitchBaudrate(sid, rate, SWITCH_DELAY_MS) :
                     sid \in SessionIds, rate \in PeerRates}
  IN negos \cup switches \cup {Truncated(m) : m \in negos \cup switches}

\* _receive_probe_frame returns the payload of a frame of the peer
P_ProbeSend ==
  /\ probeIn.cmd = None
  /\ Len(probeOut) < MaxProbeOut
  /\ probeIn' \in PeerProbeFrames
  /\ UNCHANGED <<session_id, target_baudrate, pm_negotiated_chunk_size,
                 baudrate, probeOut, probeCall, probeResult, probePc,
                 probeWaited, engineVars>>

\* handle_capability_nego; wrote: SerialManager.write succeeded
handle_capability_nego ==
  /\ probeIn.cmd = CAPABILITY_NEGO
  /\ probeIn' = NoMsg
  /\ \E wrote \in BOOLEAN :
       IF ~Unpacks(probeIn)
       THEN /\ probeResult' = FALSE
            /\ UNCHANGED <<session_id, target_baudrate,
                           pm_negotiated_chunk_size, probeOut>>
       ELSE /\ session_id' = probeIn.session_id
            /\ target_baudrate' = probeIn.selected_baudrate
            /\ IF ~Supported(probeIn.selected_baudrate)
               THEN /\ probeOut' =
                         IF wrote
                         THEN Append(probeOut,
                                     CapabilityAck(probeIn.session_id, 0,
                                                   MIN_CHUNK_SIZE))
                         ELSE probeOut
                    /\ probeResult' = FALSE
                    /\ UNCHANGED pm_negotiated_chunk_size
               ELSE /\ pm_negotiated_chunk_size' =
                         negotiate_chunk_size(probeIn.chunk_size,
                                              MAX_CHUNK_SIZE)
                    /\ probeOut' =
                         IF wrote
                         THEN Append(probeOut,
                                     CapabilityAck(
                                       probeIn.session_id, 1,
                                       negotiate_chunk_size(probeIn.chunk_size,
                                                            MAX_CHUNK_SIZE)))
                         ELSE probeOut
                    /\ probeResult' = wrote
  /\ UNCHANGED <<baudrate, probeCall, probePc, probeWaited, engineVars>>

\* variant: only the session id of a SWITCH_BAUDRATE is validated
switch_matches_SessionOnly(switch, sid, target) == switch.session_id = sid

\* handle_baudrate_switch: the validation of the session id and of the rate
switch_matches(switch, sid, target) ==
  switch.session_id = sid /\ switch.new_baudrate = target

\* handle_baudrate_switch with _execute_baudrate_switch; wrote:
\* SerialManager.write succeeded; switched: the port took the new rate
handle_baudrate_switch ==
  /\ probeIn.cmd = SWITCH_BAUDRATE
  /\ probeIn' = NoMsg
  /\ \E wrote \in BOOLEAN, switched \in BOOLEAN :
       IF \/ ~Unpacks(probeIn)
          \/ ~switch_matches(probeIn, session_id, target_baudrate)
          \/ ~wrote
       THEN /\ probeResult' = FALSE
            /\ UNCHANGED <<probeOut, baudrate>>
       ELSE /\ probeOut' = Append(probeOut, SwitchAck(session_id))
            /\ baudrate' = IF switched THEN probeIn.new_baudrate ELSE baudrate
            /\ probeResult' = switched
  /\ UNCHANGED <<session_id, target_baudrate, pm_negotiated_chunk_size,
                 probeCall, probePc, probeWaited, engineVars>>

InitProbe == InitEngines /\ NoBatch /\ NoProbe /\ NoUnits

\* the probing sender against an arbitrary peer
NextProbeTx == negotiate_capability

SpecProbeTx == InitProbe /\ [][NextProbeTx]_vars

\* the probed receiver against an arbitrary peer
NextProbeRx == P_ProbeSend \/ handle_capability_nego \/ handle_baudrate_switch

SpecProbeRx == InitProbe /\ [][NextProbeRx]_vars

\* ---- ProbeManager.send_probe_request --------------------------------------------
DeviceIds == {268435456, 305419896}
RandomSeeds == {0, 7}

\* send_probe_request: ProbeRequestData.create and the write of PROBE_REQUEST
ProbeSearch_Send ==
  /\ probePc = "idle"
  /\ \E device_id \in DeviceIds, seed \in RandomSeeds :
       /\ probeCall' = [op |-> "send_probe_request", device_id |-> device_id,
                        protocol_version |-> PROBE_PROTOCOL_VERSION,
                        random_seed |-> seed]
       /\ probeOut' = Append(probeOut,
                             ProbeRequest(device_id, PROBE_PROTOCOL_VERSION,
                                          seed))
  /\ probePc' = "waiting" /\ probeWaited' = 0
  /\ UNCHANGED <<session_id, target_baudrate, pm_negotiated_chunk_size,
                 baudrate, probeIn, probeResult, engineVars>>

\* _receive_probe_frame(PROBE_RESPONSE, PROBE_TIMEOUT): a second passes in the
\* loop without a frame
ProbeSearch_Tick ==
  /\ probePc = "waiting" /\ probeIn.cmd = None
  /\ probeWaited < PROBE_TIMEOUT
  /\ probeWaited' = probeWaited + 1
  /\ UNCHANGED <<session_id, target_baudrate, pm_negotiated_chunk_size,
                 baudrate, probeIn, probeOut, probeCall, probeResult, probePc,
                 engineVars>>

\* _receive_probe_frame: the loop ends after PROBE_TIMEOUT and returns None;
\* send_probe_request returns None
ProbeSearch_Timeout ==
  /\ probePc = "waiting" /\ probeIn.cmd = None
  /\ probeWaited >= PROBE_TIMEOUT
  /\ probePc' = "failed" /\ probeResult' = None
  /\ UNCHANGED <<session_id, target_baudrate, pm_negotiated_chunk_size,
                 baudrate, probeIn, probeOut, probeCall, probeWaited,
                 engineVars>>

\* the frames a peer sends to a probing sender
PeerSearchFrames ==
  LET responses == {ProbeResponse(device_id, version, seed, rates) :
                      device_id \in DeviceIds, version \in {1, 2},
                      seed \in RandomSeeds, rates \in PeerLists}
  IN responses \cup {Truncated(m) : m \in responses}
       \cup {CapabilityAck(sid, 1, MIN_CHUNK_SIZE) : sid \in SessionIds}

\* a frame of the peer arrives before the wait has ended
P_SearchRespond ==
  /\ probePc = "waiting" /\ probeIn.cmd = None
  /\ probeWaited < PROBE_TIMEOUT
  /\ probeIn' \in PeerSearchFrames
  /\ UNCHANGED <<session_id, target_baudrate, pm_negotiated_chunk_size,
                 baudrate, probeOut, probeCall, probeResult, probePc,
                 probeWaited, engineVars>>

\* the response is the one to the request: the three fields are echoed
response_matches(response, request) ==
  /\ response.device_id = request.device_id
  /\ response.protocol_version = request.protocol_version
  /\ response.random_seed = request.random_seed

\* _receive_probe_frame parses the frame: another command is ignored; for a
\* PROBE_RESPONSE send_probe_request unpacks, validates and returns
ProbeSearch_Frame ==
  /\ probePc = "waiting" /\ probeIn.cmd # None
  /\ probeIn' = NoMsg
  /\ IF probeIn.cmd # PROBE_RESPONSE
     THEN UNCHANGED <<probePc, probeResult>>
     ELSE IF Unpacks(probeIn) /\ response_matches(probeIn, probeCall)
     THEN probePc' = "found" /\ probeResult' = probeIn
     ELSE probePc' = "failed" /\ probeResult' = None
  /\ UNCHANGED <<session_id, target_baudrate, pm_negotiated_chunk_size,
                 baudrate, probeOut, probeCall, probeWaited, engineVars>>

NextProbeSearch ==
  \/ ProbeSearch_Send \/ ProbeSearch_Tick \/ ProbeSearch_Timeout
  \/ P_SearchRespond \/ ProbeSearch_Frame

SpecProbeSearch == InitProbe /\ [][NextProbeSearch]_vars

\* the receiver alone: no FileSender on the other end of the link
InitRx ==
  /\ InitReceiver /\ NoBatch /\ NoProbe /\ NoUnits
  /\ sPc = "absent" /\ file_size_s = 0 /\ send_size = 0 /\ seq_id = 0
  /\ sAddr = 0 /\ sLen = 0 /\ sAttempt = 0
  /\ s_max_data_length = MinChunk /\ negotiated_chunk_size = None

NextRx == R_Start \/ R_Size \/ R_Data \/ P_Inject \/ P_Drain

SpecRx == InitRx /\ [][NextRx]_vars


\* ---- the FrameHandler on bytes ----------------------------------------------------
protocolVars == <<linkVars, senderVars, receiverVars, fileVars, histVars,
                  batchVars, probeVars>>
\* the state that no step of the FrameHandler or of an unpacker changes
outsideFrames == <<protocolVars, chunkVars, retryVars, ioVars, extVars>>

NoProtocol == InitEngines /\ NoBatch /\ NoProbe

IO_READ_SIZE == 1024

\* the commands and payloads that are packed
FrameCmds == {0, 97, 255}
SmallPayloads == {<<>>, <<0>>, <<7>>, <<255, 255>>, <<1, 2, 3>>}
FrameInputs ==
  (FrameCmds \X SmallPayloads) \cup {<<97, Repeat(255, MaxPayload)>>}

InitFrames ==
  /\ NoProtocol /\ NoChunk /\ NoRetry /\ NoIo /\ NoExt
  /\ \E input \in FrameInputs : fCmd = input[1] /\ fData = input[2]
  /\ packed = <<>> /\ flipped = 0 /\ unpacked = NoUnpack /\ framePc = "args"
  /\ port = <<>> /\ buffer = <<>> /\ yielded = <<>> /\ consumed = 0
  /\ garbage = <<>> /\ unpacker = "none"
  /\ readResult = [cmd |-> None, data |-> <<>>]

\* FrameHandler.pack_frame(fCmd, fData)
pack_frame_call ==
  /\ framePc = "args"
  /\ packed' = FrameHandler_pack_frame(fCmd, fData)
  /\ framePc' = "packed"
  /\ UNCHANGED <<fCmd, fData, flipped, unpacked, port, buffer, yielded,
                 consumed, garbage, unpacker, readResult, outsideFrames>>

\* the amounts by which a byte of a frame is changed: every one for a short
\* frame, the smallest, the middle and the largest ones for a long frame
FlipDeltas(frame_bytes) ==
  IF Len(frame_bytes) <= 2 * FRAME_FORMAT_SIZE THEN 1 .. 255
  ELSE {1, 2, 127, 128, 129, 254, 255}

\* one byte of the payload region or of the checksum region of the packed
\* frame takes another value
FlipByte ==
  /\ framePc = "packed" /\ packed # NoBytes
  /\ \E i \in (FRAME_HEADER_SIZE + 1) .. Len(packed) :
       \E d \in FlipDeltas(packed) :
         /\ packed' = [packed EXCEPT ![i] = (@ + d) % 256]
         /\ flipped' = i
  /\ framePc' = "flipped"
  /\ UNCHANGED <<fCmd, fData, unpacked, port, buffer, yielded, consumed,
                 garbage, unpacker, readResult, outsideFrames>>

\* FrameHandler.unpack_frame(packed)
unpack_frame_call ==
  /\ framePc \in {"packed", "flipped"}
  /\ unpacked' = FrameHandler_unpack_frame(packed)
  /\ framePc' = "unpacked"
  /\ UNCHANGED <<fCmd, fData, packed, flipped, port, buffer, yielded,
                 consumed, garbage, unpacker, readResult, outsideFrames>>

NextFrames == pack_frame_call \/ FlipByte \/ unpack_frame_call

SpecFrames == InitFrames /\ [][NextFrames]_vars

\* a stream: garbage, then one valid frame, read by a streaming unpacker
GarbageBytes == {0, 1, 9, 255}
Garbage == UNION {[1 .. n -> GarbageBytes] : n \in 0 .. MaxGarbage}
StreamCmds == {66, 97}
StreamPayloads == {<<>>, <<7>>, <<1, 2>>}

InitStream ==
  /\ NoProtocol /\ NoChunk /\ NoRetry /\ NoIo /\ NoExt
  /\ fCmd \in StreamCmds /\ fData \in StreamPayloads
  /\ packed = FrameHandler_pack_frame(fCmd, fData)
  /\ garbage \in Garbage
  /\ port = garbage \o packed
  /\ unpacker \in {"io_thread", "probe"}
  /\ flipped = 0 /\ unpacked = NoUnpack /\ framePc = "stream"
  /\ buffer = <<>> /\ yielded = <<>> /\ consumed = 0
  /\ readResult = [cmd |-> None, data |-> <<>>]

\* what the unpacker that runs does with its buffer
StreamStep ==
  IF unpacker = "probe" THEN receive_probe_frame_step(buffer, fCmd)
  ELSE parse_frame_from_buffer(buffer)

\* _io_loop and _receive_probe_frame, serial_manager.read(1024): reached when
\* the inner loop has ended; the port returns the bytes that have arrived
serial_read ==
  /\ framePc = "stream" /\ port # <<>>
  /\ StreamStep.kind = "wait"
  /\ \E n \in 1 .. Min(IO_READ_SIZE, Len(port)) :
       /\ buffer' = buffer \o SubSeq(port, 1, n)
       /\ port' = Drop(port, n)
  /\ UNCHANGED <<fCmd, fData, packed, flipped, unpacked, framePc, yielded,
                 consumed, garbage, unpacker, readResult, outsideFrames>>

\* _io_loop, one turn of the inner loop: _parse_frame_from_buffer and, for a
\* frame, _queue_frame
io_loop_parse ==
  /\ framePc = "stream" /\ unpacker = "io_thread"
  /\ LET r == parse_frame_from_buffer(buffer)
     IN /\ r.kind # "wait"
        /\ buffer' = r.rest
        /\ consumed' = consumed + Len(buffer) - Len(r.rest)
        /\ yielded' = IF r.kind = "frame" THEN Append(yielded, r.frame)
                      ELSE yielded
  /\ UNCHANGED <<fCmd, fData, packed, flipped, unpacked, framePc, port,
                 garbage, unpacker, readResult, outsideFrames>>

\* _receive_probe_frame(expected_cmd = fCmd), one turn of the inner loop
receive_probe_frame_parse ==
  /\ framePc = "stream" /\ unpacker = "probe"
  /\ LET r == receive_probe_frame_step(buffer, fCmd)
     IN /\ r.kind # "wait"
        /\ buffer' = r.rest
        /\ consumed' = consumed + Len(buffer) - Len(r.rest)
        /\ yielded' = IF r.kind = "frame" THEN Append(yielded, r.frame)
                      ELSE yielded
        /\ framePc' = IF r.kind = "frame" THEN "returned" ELSE "stream"
  /\ UNCHANGED <<fCmd, fData, packed, flipped, unpacked, port, garbage,
                 unpacker, readResult, outsideFrames>>

NextStream == serial_read \/ io_loop_parse \/ receive_probe_frame_parse

SpecStream == InitStream /\ [][NextStream]_vars

\* a port that holds one valid frame and the bytes that follow it
ExtraBytes == {0, 88}
Extras == UNION {[1 .. n -> ExtraBytes] : n \in 0 .. MaxExtra}

InitReadFrame ==
  /\ NoProtocol /\ NoChunk /\ NoRetry /\ NoIo /\ NoExt
  /\ fCmd \in StreamCmds /\ fData \in StreamPayloads
  /\ packed = FrameHandler_pack_frame(fCmd, fData)
  /\ \E extra \in Extras : port = packed \o extra
  /\ garbage = <<>> /\ unpacker = "none"
  /\ flipped = 0 /\ unpacked = NoUnpack /\ framePc = "port"
  /\ buffer = <<>> /\ yielded = <<>> /\ consumed = 0
  /\ readResult = [cmd |-> None, data |-> <<>>]

\* FrameHandler.read_frame(port, size) with a size that covers the frame; the
\* port's one read returns n of the bytes, fewer than size when the serial
\* timeout ends the read
read_frame_call ==
  /\ framePc = "port" /\ port # <<>>
  /\ \E size \in Len(packed) .. (Len(packed) + MaxExtra) :
       \E n \in 1 .. Min(size, Len(port)) :
         /\ readResult' = FrameHandler_read_frame(SubSeq(port, 1, n))
         /\ port' = Drop(port, n)
         /\ consumed' = consumed + n
  /\ UNCHANGED <<fCmd, fData, packed, flipped, unpacked, framePc, buffer,
                 yielded, garbage, unpacker, outsideFrames>>

NextReadFrame == read_frame_call

SpecReadFrame == InitReadFrame /\ [][NextReadFrame]_vars

\* ---- negotiate_chunk_size -----------------------------------------------------------
\* the sizes a sender recommends and a receiver allows
ChunkArguments ==
  {0, 100, 200, 511, 512, 513, 1024, 2048, 4096, 16383, 16384, 16385, 20000,
   30000}

InitChunk ==
  /\ NoProtocol /\ NoFrames /\ NoRetry /\ NoIo /\ NoExt
  /\ chunk_s \in ChunkArguments /\ chunk_r \in ChunkArguments
  /\ chunk_result = None /\ chunkPc = "args"

\* negotiate_chunk_size(chunk_s, chunk_r)
negotiate_chunk_size_call ==
  /\ chunkPc = "args"
  /\ chunk_result' = negotiate_chunk_size(chunk_s, chunk_r)
  /\ chunkPc' = "done"
  /\ UNCHANGED <<chunk_s, chunk_r, protocolVars, frameVars, retryVars, ioVars,
               extVars>>

NextChunk == negotiate_chunk_size_call

SpecChunk == InitChunk /\ [][NextChunk]_vars

\* ---- retry_call ---------------------------------------------------------------------
\* what func returns: None and False (0) are not truthy
FuncResults == {None, 0, 1, 5}

\* variant: only None counts as a failed attempt
truthy_NotNone(result) == result # None

\* retry_call: if result
truthy(result) == result # None /\ result # 0

BaseDelays == {1, SIZE_BASE_DELAY}

InitRetry ==
  /\ NoProtocol /\ NoFrames /\ NoChunk /\ NoIo /\ NoExt
  /\ rcMaxRetry \in 0 .. MaxRetryArg /\ rcBase \in BaseDelays
  /\ rcPc = "call" /\ rcAttempt = 0 /\ rcLog = <<>> /\ rcSleeps = <<>>
  /\ rcResult = None

\* retry_call, one turn of the loop up to the sleep: func() and what follows
\* from its result
retry_call_func ==
  /\ rcPc = "call"
  /\ \E result \in FuncResults :
       /\ rcLog' = Append(rcLog, result)
       /\ IF truthy(result)
          THEN rcPc' = "returned" /\ rcResult' = result
          ELSE IF retries_exhausted(rcAttempt, rcMaxRetry)
          THEN rcPc' = "returned" /\ rcResult' = None
          ELSE rcPc' = "sleep" /\ rcResult' = rcResult
  /\ UNCHANGED <<rcAttempt, rcSleeps, rcMaxRetry, rcBase, protocolVars,
                 frameVars, chunkVars, ioVars, extVars>>

\* retry_call: time.sleep(exponential_backoff(base_delay, attempt)), then the
\* next turn of the loop
retry_call_sleep ==
  /\ rcPc = "sleep"
  /\ \E wait \in exponential_backoff(rcBase, rcAttempt) :
       rcSleeps' = Append(rcSleeps, wait)
  /\ rcAttempt' = rcAttempt + 1
  /\ rcPc' = "call"
  /\ UNCHANGED <<rcLog, rcResult, rcMaxRetry, rcBase, protocolVars, frameVars,
                 chunkVars, ioVars, extVars>>

NextRetry == retry_call_func \/ retry_call_sleep

SpecRetry == InitRetry /\ [][NextRetry]_vars

\* ---- IoThread -----------------------------------------------------------------------
outsideIo == <<protocolVars, frameVars, chunkVars, retryVars, extVars>>

InitIo ==
  /\ NoProtocol /\ NoFrames /\ NoChunk /\ NoRetry /\ NoExt
  /\ is_open \in BOOLEAN
  /\ NewIoThread

Returned(op, value) == [op |-> op, value |-> value]

\* a start() is between its check of _running and its return
Starting(c) == callPc[c] \in {"start_checked", "start_created"}

\* start(), the two checks
start_check(c) ==
  /\ callPc[c] = "idle"
  /\ IF running
     THEN /\ callRet' = [callRet EXCEPT ![c] = Returned("start", TRUE)]
          /\ UNCHANGED <<callPc, stopped>>
     ELSE IF ~is_open
     THEN /\ callRet' = [callRet EXCEPT ![c] = Returned("start", FALSE)]
          /\ UNCHANGED <<callPc, stopped>>
     ELSE /\ callPc' = [callPc EXCEPT ![c] = "start_checked"]
          /\ stopped' = FALSE
          /\ UNCHANGED callRet
  /\ UNCHANGED <<is_open, running, stop_event, thread, frame_queue,
                 frames_received, frames_dropped, alive, started, rdPc,
                 rdFrame, produced, consPc, returned, outsideIo>>

\* start(): _stop_event.clear(), the Thread is created and started; when the
\* system gives no more threads, the exception handler returns False
start_thread(c) ==
  /\ callPc[c] = "start_checked"
  /\ IF started < MaxThreads
     THEN /\ stop_event' = FALSE
          /\ started' = started + 1
          /\ thread' = started + 1
          /\ alive' = alive \cup {started + 1}
          /\ rdPc' = [rdPc EXCEPT ![started + 1] = "while"]
          /\ callPc' = [callPc EXCEPT ![c] = "start_created"]
          /\ UNCHANGED callRet
     ELSE /\ stop_event' = FALSE
          /\ callPc' = [callPc EXCEPT ![c] = "idle"]
          /\ callRet' = [callRet EXCEPT ![c] = Returned("start", FALSE)]
          /\ UNCHANGED <<started, thread, alive, rdPc>>
  /\ UNCHANGED <<is_open, running, frame_queue, frames_received,
                 frames_dropped, rdFrame, produced, stopped, consPc, returned,
                 outsideIo>>

\* start(): _running = True; return True
start_running(c) ==
  /\ callPc[c] = "start_created"
  /\ running' = TRUE
  /\ callPc' = [callPc EXCEPT ![c] = "idle"]
  /\ callRet' = [callRet EXCEPT ![c] = Returned("start", TRUE)]
  /\ UNCHANGED <<is_open, stop_event, thread, frame_queue, frames_received,
                 frames_dropped, alive, started, rdPc, rdFrame, produced,
                 stopped, consPc, returned, outsideIo>>

\* stop(): return True when not running, else _stop_event.set()
stop_check(c) ==
  /\ callPc[c] = "idle"
  /\ IF ~running
     THEN /\ callRet' = [callRet EXCEPT ![c] = Returned("stop", TRUE)]
          /\ stopped' = ~\E other \in Callers : Starting(other)
          /\ UNCHANGED <<callPc, stop_event>>
     ELSE /\ stop_event' = TRUE
          /\ callPc' = [callPc EXCEPT ![c] = "stop_join"]
          /\ UNCHANGED <<callRet, stopped>>
  /\ UNCHANGED <<is_open, running, thread, frame_queue, frames_received,
                 frames_dropped, alive, started, rdPc, rdFrame, produced,
                 consPc, returned, outsideIo>>

\* stop(): _thread is None or has ended, at once or within the join;
\* _running = False; return True
stop_joined(c) ==
  /\ callPc[c] = "stop_join"
  /\ thread \notin alive
  /\ running' = FALSE
  /\ callPc' = [callPc EXCEPT ![c] = "idle"]
  /\ callRet' = [callRet EXCEPT ![c] = Returned("stop", TRUE)]
  /\ stopped' = ~\E other \in Callers : Starting(other)
  /\ UNCHANGED <<is_open, stop_event, thread, frame_queue, frames_received,
                 frames_dropped, alive, started, rdPc, rdFrame, produced,
                 consPc, returned, outsideIo>>

\* stop(): the join times out and _thread is still alive; return False
stop_join_timeout(c) ==
  /\ callPc[c] = "stop_join"
  /\ thread \in alive
  /\ callPc' = [callPc EXCEPT ![c] = "idle"]
  /\ callRet' = [callRet EXCEPT ![c] = Returned("stop", FALSE)]
  /\ UNCHANGED <<is_open, running, stop_event, thread, frame_queue,
                 frames_received, frames_dropped, alive, started, rdPc,
                 rdFrame, produced, stopped, consPc, returned, outsideIo>>

\* _io_loop: while not self._stop_event.is_set()
io_loop_while(t) ==
  /\ t \in alive /\ rdPc[t] = "while"
  /\ IF stop_event
     THEN /\ alive' = alive \ {t}
          /\ rdPc' = [rdPc EXCEPT ![t] = "ended"]
     ELSE /\ rdPc' = [rdPc EXCEPT ![t] = "read"]
          /\ UNCHANGED alive
  /\ UNCHANGED <<is_open, running, stop_event, thread, frame_queue,
                 frames_received, frames_dropped, started, rdFrame, produced,
                 callPc, callRet, stopped, consPc, returned, outsideIo>>

\* _io_loop: the read and the inner loop find one more frame in the buffer
io_loop_frame(t) ==
  /\ t \in alive /\ rdPc[t] = "read"
  /\ produced < MaxFrames
  /\ produced' = produced + 1
  /\ rdFrame' = [rdFrame EXCEPT ![t] = produced + 1]
  /\ rdPc' = [rdPc EXCEPT ![t] = "put"]
  /\ UNCHANGED <<is_open, running, stop_event, thread, frame_queue,
                 frames_received, frames_dropped, alive, started, callPc,
                 callRet, stopped, consPc, returned, outsideIo>>

\* _io_loop: no frame, or no more frames, in the buffer; sleep 1 ms
io_loop_sleep(t) ==
  /\ t \in alive /\ rdPc[t] = "read"
  /\ rdPc' = [rdPc EXCEPT ![t] = "while"]
  /\ UNCHANGED <<is_open, running, stop_event, thread, frame_queue,
                 frames_received, frames_dropped, alive, started, rdFrame,
                 produced, callPc, callRet, stopped, consPc, returned,
                 outsideIo>>

\* _queue_frame: put_nowait(frame); frames_received += 1, or queue.Full
queue_frame_put(t) ==
  /\ t \in alive /\ rdPc[t] = "put"
  /\ IF Len(frame_queue) < QueueCapacity
     THEN /\ frame_queue' = Append(frame_queue, rdFrame[t])
          /\ frames_received' = frames_received + 1
          /\ rdPc' = [rdPc EXCEPT ![t] = "read"]
     ELSE /\ rdPc' = [rdPc EXCEPT ![t] = "full"]
          /\ UNCHANGED <<frame_queue, frames_received>>
  /\ UNCHANGED <<is_open, running, stop_event, thread, frames_dropped, alive,
                 started, rdFrame, produced, callPc, callRet, stopped, consPc,
                 returned, outsideIo>>

\* _queue_frame, queue.Full: get_nowait(), or queue.Empty and pass
queue_frame_get(t) ==
  /\ t \in alive /\ rdPc[t] = "full"
  /\ IF frame_queue # <<>>
     THEN /\ frame_queue' = Tail(frame_queue)
          /\ rdPc' = [rdPc EXCEPT ![t] = "reput"]
     ELSE /\ rdPc' = [rdPc EXCEPT ![t] = "read"]
          /\ UNCHANGED frame_queue
  /\ UNCHANGED <<is_open, running, stop_event, thread, frames_received,
                 frames_dropped, alive, started, rdFrame, produced, callPc,
                 callRet, stopped, consPc, returned, outsideIo>>

\* _queue_frame, queue.Full: put_nowait(frame); frames_dropped += 1, or a
\* second queue.Full, which except Exception logs
queue_frame_reput(t) ==
  /\ t \in alive /\ rdPc[t] = "reput"
  /\ IF Len(frame_queue) < QueueCapacity
     THEN /\ frame_queue' = Append(frame_queue, rdFrame[t])
          /\ frames_dropped' = frames_dropped + 1
     ELSE UNCHANGED <<frame_queue, frames_dropped>>
  /\ rdPc' = [rdPc EXCEPT ![t] = "read"]
  /\ UNCHANGED <<is_open, running, stop_event, thread, frames_received, alive,
                 started, rdFrame, produced, callPc, callRet, stopped, consPc,
                 returned, outsideIo>>

\* get_frame(timeout): frame_queue.get returns the oldest frame, or waits,
\* without end when timeout is None
get_frame_call ==
  /\ consPc = "idle"
  /\ IF frame_queue # <<>>
     THEN /\ returned' = returned \cup {Head(frame_queue)}
          /\ frame_queue' = Tail(frame_queue)
          /\ UNCHANGED consPc
     ELSE /\ consPc' \in {"blocked", "timed"}
          /\ UNCHANGED <<returned, frame_queue>>
  /\ UNCHANGED <<is_open, running, stop_event, thread, frames_received,
                 frames_dropped, alive, started, rdPc, rdFrame, produced,
                 callPc, callRet, stopped, outsideIo>>

\* get_frame: a frame was put while frame_queue.get waited
get_frame_wake ==
  /\ consPc \in {"blocked", "timed"}
  /\ frame_queue # <<>>
  /\ returned' = returned \cup {Head(frame_queue)}
  /\ frame_queue' = Tail(frame_queue)
  /\ consPc' = "idle"
  /\ UNCHANGED <<is_open, running, stop_event, thread, frames_received,
                 frames_dropped, alive, started, rdPc, rdFrame, produced,
                 callPc, callRet, stopped, outsideIo>>

\* get_frame: queue.Empty after the timeout; return None
get_frame_timeout ==
  /\ consPc = "timed"
  /\ frame_queue = <<>>
  /\ consPc' = "idle"
  /\ UNCHANGED <<is_open, running, stop_event, thread, frame_queue,
                 frames_received, frames_dropped, alive, started, rdPc,
                 rdFrame, produced, callPc, callRet, stopped, returned,
                 outsideIo>>

NextIo ==
  \/ \E c \in Callers : start_check(c)
  \/ \E c \in Callers : start_thread(c)
  \/ \E c \in Callers : start_running(c)
  \/ \E c \in Callers : stop_check(c)
  \/ \E c \in Callers : stop_joined(c)
  \/ \E c \in Callers : stop_join_timeout(c)
  \/ \E t \in Threads : io_loop_while(t)
  \/ \E t \in Threads : io_loop_frame(t)
  \/ \E t \in Threads : io_loop_sleep(t)
  \/ \E t \in Threads : queue_frame_put(t)
  \/ \E t \in Threads : queue_frame_get(t)
  \/ \E t \in Threads : queue_frame_reput(t)
  \/ get_frame_call \/ get_frame_wake \/ get_frame_timeout

SpecIo == InitIo /\ [][NextIo]_vars

\* every call in progress and every reader thread goes on; nobody owes a new
\* call, a frame on the line, or a join that ends in time
FairnessIo ==
  /\ WF_vars(\E c \in Callers : start_thread(c))
  /\ WF_vars(\E c \in Callers : start_running(c))
  /\ WF_vars(\E c \in Callers : stop_joined(c) \/ stop_join_timeout(c))
  /\ WF_vars(\E t \in Threads : io_loop_while(t))
  /\ WF_vars(\E t \in Threads : io_loop_sleep(t))
  /\ WF_vars(\E t \in Threads : queue_frame_put(t))
  /\ WF_vars(\E t \in Threads : queue_frame_get(t))
  /\ WF_vars(\E t \in Threads : queue_frame_reput(t))
  /\ WF_vars(get_frame_wake) /\ WF_vars(get_frame_timeout)

SpecIoLive == InitIo /\ [][NextIo]_vars /\ FairnessIo

\* ---- path_utils ---------------------------------------------------------------------
NAME_LIMIT == 255
BACKSLASH == 92
UNDERSCORE == 95
SPACE == 32
LESS == 60
DIGIT_ZERO == 48

\* the characters of the pattern [<>:"/\\|?*]
unsafe_chars == {60, 62, 58, 34, 47, 92, 124, 63, 42}

\* "unnamed_file"
unnamed_file == <<117, 110, 110, 97, 109, 101, 100, 95, 102, 105, 108, 101>>

\* str.strip(chars): the characters of chars are removed at both ends
strip(name, chars) ==
  LET keep == {i \in 1 .. Len(name) : name[i] \notin chars}
  IN IF keep = {} THEN <<>>
     ELSE SubSeq(name, CHOOSE i \in keep : \A j \in keep : i <= j,
                       CHOOSE i \in keep : \A j \in keep : j <= i)

\* str.rfind("."), counted from 1; 0 when there is no "."
LastDot(name) ==
  LET dots == {i \in 1 .. Len(name) : name[i] = DOT}
  IN IF dots = {} THEN 0 ELSE CHOOSE i \in dots : \A j \in dots : j <= i

\* os.path.splitext of a name without separators: the extension starts at
\* the last "." unless only "." come before it
splitext(name) ==
  LET d == LastDot(name)
  IN IF d > 0 /\ \E i \in 1 .. d - 1 : name[i] # DOT
     THEN [name |-> SubSeq(name, 1, d - 1), ext |-> SubSeq(name, d, Len(name))]
     ELSE [name |-> name, ext |-> <<>>]

\* name[:n] of Python: a negative n counts from the end
Slice(name, n) ==
  IF n >= 0 THEN SubSeq(name, 1, Min(n, Len(name)))
  ELSE SubSeq(name, 1, Max(0, Len(name) + n))

sanitize_filename(filename) ==
  LET replaced == [i \in 1 .. Len(filename) |->
                     IF filename[i] \in unsafe_chars THEN UNDERSCORE
                     ELSE filename[i]]
      stripped == strip(replaced, {SPACE, DOT})
      sanitized == IF stripped = <<>> THEN unnamed_file ELSE stripped
      parts == splitext(sanitized)
      max_name_len == NAME_LIMIT - Len(parts.ext)
  IN IF Len(sanitized) > NAME_LIMIT
     THEN Slice(parts.name, max_name_len) \o parts.ext
     ELSE sanitized

RECURSIVE CollapseSlashes(_)
\* re.sub(r"/+", "/", path), by halves
CollapseSlashes(path) ==
  IF Len(path) <= 1 THEN path
  ELSE LET half == Len(path) \div 2
           left == CollapseSlashes(SubSeq(path, 1, half))
           right == CollapseSlashes(SubSeq(path, half + 1, Len(path)))
       IN IF left[Len(left)] = SLASH /\ right[1] = SLASH
          THEN left \o Tail(right)
          ELSE left \o right

normalize_path(path) ==
  LET normalized == [i \in 1 .. Len(path) |->
                       IF path[i] = BACKSLASH THEN SLASH ELSE path[i]]
      collapsed == CollapseSlashes(normalized)
  IN IF collapsed # <<>> /\ Head(collapsed) = SLASH THEN Tail(collapsed)
     ELSE collapsed

RECURSIVE Decimal(_)
\* str(counter)
Decimal(n) ==
  IF n < 10 THEN <<DIGIT_ZERO + n>>
  ELSE Append(Decimal(n \div 10), DIGIT_ZERO + (n % 10))

\* Path.suffix: from the last "." when it is neither first nor last
suffix(name) ==
  LET d == LastDot(name)
  IN IF 1 < d /\ d < Len(name) THEN SubSeq(name, d, Len(name)) ELSE <<>>

\* Path.stem
stem(name) == SubSeq(name, 1, Len(name) - Len(suffix(name)))

\* resolve_file_conflict: the path tried when counter - 1 paths were taken
\* (new_path = parent / f"{stem}_{counter}{suffix}"); Candidate(p, 0) is p
Candidate(file_path, counter) ==
  LET name == file_path[Len(file_path)]
      parent == SubSeq(file_path, 1, Len(file_path) - 1)
  IN IF counter = 0 THEN file_path
     ELSE Append(parent,
                 stem(name) \o <<UNDERSCORE>> \o Decimal(counter)
                   \o suffix(name))

\* the counters whose paths resolve_file_conflict asks exists() about
Probed(file_path, taken) ==
  {n \in 0 .. Cardinality(taken) :
     \A m \in 0 .. n - 1 : Candidate(file_path, m) \in taken}

\* resolve_file_conflict: the first candidate that does not exist (the
\* files of the model are fewer than the 9999 counters)
resolve_file_conflict(file_path, taken) ==
  Candidate(file_path,
            CHOOSE n \in Probed(file_path, taken) :
              Candidate(file_path, n) \notin taken)

\* create_safe_path before resolve_file_conflict
full_path(base_path, relative) ==
  LET normalized == normalize_path(relative)
      path_parts == SplitName(normalized)
      kept == SelectSeq(path_parts, LAMBDA part : part # <<>> /\ part # <<DOT>>)
      safe_parts == [k \in 1 .. Len(kept) |-> sanitize_filename(kept[k])]
  IN IF safe_parts # <<>> THEN base_path \o safe_parts
     ELSE Append(base_path, unnamed_file)

create_safe_path(base_path, relative, taken) ==
  resolve_file_conflict(full_path(base_path, relative), taken)

\* Path.exists() raises OSError (ENAMETOOLONG) where the file system limits
\* a name to 255 bytes, and answers False where it does not
ExistsMayRaise(path) == Len(path[Len(path)]) > NAME_LIMIT

\* the short relative paths: every sequence of at most MaxRelLen characters of
\* the alphabet
PathAlphabet == {LETTER, DOT, SLASH, BACKSLASH, LESS, SPACE}
ShortPaths ==
  UNION {[1 .. n -> PathAlphabet] : n \in 0 .. MaxRelLen}

\* the long names: a name of the limit with an extension, a name over the
\* limit, an extension over the limit
LongNames ==
  { Repeat(LETTER, NAME_LIMIT - 4) \o <<DOT, LETTER, LETTER, LETTER>>,
    Repeat(LETTER, NAME_LIMIT + 45) \o <<DOT, LETTER>>,
    <<LETTER, DOT>> \o Repeat(LETTER, NAME_LIMIT + 45) }

InitPath ==
  /\ NoProtocol /\ NoFrames /\ NoChunk /\ NoRetry /\ NoIo /\ NoSwitch
  /\ relative_path \in ShortPaths \cup LongNames
  /\ on_disk \in SUBSET {Candidate(full_path(folder_path, relative_path), n) :
                           n \in 0 .. MaxExisting - 1}
  /\ safe_path = <<>>
  /\ pathPc = "call"

\* create_safe_path returns
create_safe_path_return ==
  /\ pathPc = "call"
  /\ safe_path' = create_safe_path(folder_path, relative_path, on_disk)
  /\ pathPc' = "done"
  /\ UNCHANGED <<relative_path, on_disk, protocolVars, frameVars, chunkVars,
                 retryVars, ioVars, switchVars>>

\* an exists() of resolve_file_conflict raises, and so does create_safe_path
create_safe_path_raise ==
  /\ pathPc = "call"
  /\ \E n \in Probed(full_path(folder_path, relative_path), on_disk) :
       ExistsMayRaise(Candidate(full_path(folder_path, relative_path), n))
  /\ pathPc' = "raised"
  /\ UNCHANGED <<relative_path, on_disk, safe_path, protocolVars, frameVars,
                 chunkVars, retryVars, ioVars, switchVars>>

NextPath == create_safe_path_return \/ create_safe_path_raise

SpecPath == InitPath /\ [][NextPath]_vars

\* ---- an arbitrary peer (the sender against any requests) --------------------------
PeerAddrs == 0 .. MaxFileSize + 1
PeerRequestLens == 0 .. MaxChunk + 1

PeerRequests ==
  {FileSizeRequest, AckFrame(ACK, seq_id)}
  \cup {DataRequest(addr, length) : addr \in PeerAddrs,
                                    length \in PeerRequestLens}

\* the peer writes a frame to the link
Q_Inject ==
  /\ sPc \in {"wait_size", "serve", "ack"}
  /\ injected < MaxInject
  /\ r2s = <<>>
  /\ \E f \in PeerRequests : r2s' = write(r2s, f)
  /\ injected' = injected + 1
  /\ UNCHANGED <<s2r, corrupted, senderVars, receiverVars, fileVars, acked>>
  /\ UNCHANGED otherVars

\* the peer reads what the sender wrote
Q_Drain ==
  /\ s2r # <<>>
  /\ s2r' = <<>>
  /\ UNCHANGED <<r2s, corrupted, senderVars, receiverVars, fileVars, histVars>>
  /\ UNCHANGED otherVars

\* the sender alone: no FileReceiver on the other end of the link
InitTx ==
  /\ s2r = <<>> /\ r2s = <<>> /\ corrupted = 0
  /\ rPc = "absent" /\ file_size = 0 /\ recv_size = 0 /\ expected_seq = 0
  /\ rAddr = 0 /\ rLen = 0 /\ rAttempt = 0 /\ rWaited = 0
  /\ max_data_length = MinChunk
  /\ disk = <<>> /\ handle = "none" /\ exists = FALSE
  /\ acked = <<>> /\ injected = 0
  /\ InitSender /\ NoBatch /\ NoProbe /\ NoUnits

NextTx ==
  \/ S_Start \/ S_WaitSize \/ S_WaitSizeTimeout \/ S_Serve \/ S_Ack
  \/ S_AckTimeout \/ Q_Inject \/ Q_Drain

SpecTx == InitTx /\ [][NextTx]_vars

\* ---- FileTransferCLI.smart_receive ---------------------------------------------------
CLI_MAX_DATA_LENGTH == 10 * 1024

\* the sizes the peer declares: more than the smallest negotiated chunk, more
\* than max_data_length
SmartSizes == {MIN_CHUNK_SIZE + 1, 2 * CLI_MAX_DATA_LENGTH}

\* smart_receive has come through the capability exchange and the switch:
\* handle_capability_nego accepted and handle_baudrate_switch returned True
ExchangeDone ==
  /\ Len(probeOut) = 2 /\ probeIn = NoMsg /\ probeResult = TRUE
  /\ probeOut[1] = CapabilityAck(session_id, 1, pm_negotiated_chunk_size)
  /\ probeOut[2] = SwitchAck(session_id)
  /\ baudrate = target_baudrate

\* smart_receive after the switch: TransferConfig(max_data_length=10*1024)
\* and the FileReceiver that is given it
smart_receive_transfer ==
  /\ ExchangeDone
  /\ rPc = "idle"
  /\ max_data_length' = CLI_MAX_DATA_LENGTH
  /\ rPc' = "start"
  /\ UNCHANGED <<linkVars, senderVars, file_size, recv_size, expected_seq,
                 rAddr, rLen, rAttempt, rWaited, fileVars, histVars>>
  /\ UNCHANGED otherVars

\* the peer answers the size request
P_ReplySize ==
  /\ rPc = "size"
  /\ injected < MaxInject
  /\ s2r = <<>>
  /\ \E size \in SmartSizes : s2r' = write(s2r, FileSizeReply(size))
  /\ injected' = injected + 1
  /\ UNCHANGED <<r2s, corrupted, senderVars, receiverVars, fileVars, acked>>
  /\ UNCHANGED otherVars

\* the peer answers a REQUEST_DATA with some bytes under the expected
\* sequence number
P_SendChunk ==
  /\ rPc = "data"
  /\ injected < MaxInject
  /\ s2r = <<>>
  /\ \E k \in PeerLens : s2r' = write(s2r, DataFrame(expected_seq,
                                                     Bytes(recv_size, k)))
  /\ injected' = injected + 1
  /\ UNCHANGED <<r2s, corrupted, senderVars, receiverVars, fileVars, acked>>
  /\ UNCHANGED otherVars

\* smart_receive against an arbitrary peer
NextSmartRx ==
  \/ P_ProbeSend \/ handle_capability_nego \/ handle_baudrate_switch
  \/ smart_receive_transfer
  \/ R_Start \/ R_Size \/ R_Data \/ P_ReplySize \/ P_SendChunk \/ P_Drain

SpecSmartRx == InitProbe /\ [][NextSmartRx]_vars

\* ---- a link that loses one frame -----------------------------------------------------
LossKinds == {REPLY_FILE_SIZE, REQUEST_DATA, SEND_DATA, ACK}

\* the stream without its i-th frame
Without(ch, i) == SubSeq(ch, 1, i - 1) \o SubSeq(ch, i + 1, Len(ch))

\* a frame that was written never arrives
Lose ==
  /\ corrupted < MaxCorrupt
  /\ \/ \E i \in 1 .. Len(s2r) :
          /\ s2r[i].rem = FrameBytes(s2r[i].f) /\ s2r[i].f.cmd \in LossKinds
          /\ s2r' = Without(s2r, i) /\ r2s' = r2s
     \/ \E i \in 1 .. Len(r2s) :
          /\ r2s[i].rem = FrameBytes(r2s[i].f) /\ r2s[i].f.cmd \in LossKinds
          /\ r2s' = Without(r2s, i) /\ s2r' = s2r
  /\ corrupted' = corrupted + 1
  /\ UNCHANGED <<senderVars, receiverVars, fileVars, histVars>>
  /\ UNCHANGED otherVars

\* the receiver has returned and nothing it wrote is left to read: the
\* sender's waits (request_timeout, 300 s) outlast every wait of the receiver
\* (serial timeout 0.1 s, backoff from 0.1 s and 0.2 s)
ReceiverGone == r2s = <<>> /\ rPc \in {"done", "failed"}

\* the sender is waiting and has nothing to read and nothing on its way
SenderSilent == s2r = <<>> /\ r2s = <<>> /\ sPc # "start"

\* the receiver's reads when every frame that is not lost arrives, and is
\* answered, within the serial timeout: a read returns nothing only when
\* nothing is on its way
\* nothing is on its way; the file system does not fail either (close()
\* does not raise)
CloseRaised ==
  /\ rPc' = "failed" /\ handle' = "closed"
  /\ recv_size' >= file_size' /\ StatSize(disk') = file_size'

R_Size_Delivered == R_Size /\ (s2r' = s2r => SenderSilent) /\ ~CloseRaised
R_Data_Delivered == R_Data /\ (s2r' = s2r => SenderSilent) /\ ~CloseRaised

\* the sender's timeout with a receiver that is not slow
S_AckTimeout_Delivered == S_AckTimeout /\ ReceiverGone

\* (the receiver does not return before its size request is answered, so the
\* timeout of wait_for_file_size_request never expires and is left out)
NextLoss ==
  \/ S_Start \/ S_WaitSize \/ S_Serve \/ S_Ack \/ S_AckTimeout_Delivered
  \/ R_Start \/ R_Size_Delivered \/ R_Data_Delivered
  \/ Lose

\* a file to send that is shorter than a chunk (the read of
\* receive_data_package is too short for a full chunk, lost frame or not),
\* equal chunk sizes on both sides, nothing negotiated
InitLoss ==
  /\ Init
  /\ file_size_s > 0 /\ file_size_s < max_data_length
  /\ negotiated_chunk_size = None
  /\ s_max_data_length = max_data_length

SpecLoss == InitLoss /\ [][NextLoss]_vars

\* ---- the rate switch between two ProbeManagers ---------------------------------------
\* the receiving ProbeManager is the one of handle_baudrate_switch; both
\* ProbeManagers hold the session id and the target rate of the capability
\* phase, both ports are at the probe rate
InitSwitch ==
  /\ InitEngines /\ NoBatch /\ NoFrames /\ NoChunk /\ NoRetry /\ NoIo /\ NoPath
  /\ session_id \in SessionIds
  /\ target_baudrate \in {supported_baudrates[i] :
                            i \in 1 .. Len(supported_baudrates)}
  /\ pm_negotiated_chunk_size \in {MIN_CHUNK_SIZE, MAX_CHUNK_SIZE}
  /\ baudrate = PROBE_BAUDRATE
  /\ probeIn = NoMsg /\ probeOut = <<>>
  /\ probeCall = NoCall /\ probeResult = None
  /\ probePc = "idle" /\ probeWaited = 0
  /\ tx_baudrate = PROBE_BAUDRATE /\ txPc = "call"

switchFrame == <<linkVars, senderVars, receiverVars, fileVars, histVars,
                 batchVars, frameVars, chunkVars, retryVars, ioVars, pathVars>>

\* switch_baudrate of the sender: the SWITCH_BAUDRATE is written; wrote:
\* SerialManager.write succeeded
switch_baudrate_send ==
  /\ txPc = "call"
  /\ \E wrote \in BOOLEAN :
       IF wrote
       THEN /\ probeIn' = SwitchBaudrate(session_id, target_baudrate,
                                         SWITCH_DELAY_MS)
            /\ txPc' = "wait_ack"
       ELSE /\ probeIn' = probeIn
            /\ txPc' = "failed"
  /\ UNCHANGED <<session_id, target_baudrate, pm_negotiated_chunk_size,
                 baudrate, probeOut, probeCall, probeResult, probePc,
                 probeWaited, tx_baudrate, switchFrame>>

\* switch_baudrate: the SWITCH_ACK the receiver wrote arrives within
\* SWITCH_TIMEOUT, then _execute_baudrate_switch; switched: the port took the
\* new rate
switch_baudrate_ack ==
  /\ txPc = "wait_ack"
  /\ probeOut # <<>> /\ probeOut[Len(probeOut)].cmd = SWITCH_ACK
  /\ \E switched \in BOOLEAN :
       IF probeOut[Len(probeOut)].session_id = session_id /\ switched
       THEN tx_baudrate' = target_baudrate /\ txPc' = "switched"
       ELSE tx_baudrate' = tx_baudrate /\ txPc' = "failed"
  /\ UNCHANGED <<probeVars, switchFrame>>

\* switch_baudrate: no SWITCH_ACK within SWITCH_TIMEOUT (none was written, it
\* was lost, or it is late)
switch_baudrate_timeout ==
  /\ txPc = "wait_ack"
  /\ txPc' = "failed"
  /\ UNCHANGED <<tx_baudrate, probeVars, switchFrame>>

NextSwitch ==
  \/ switch_baudrate_send \/ handle_baudrate_switch
  \/ switch_baudrate_ack \/ switch_baudrate_timeout

SpecSwitch == InitSwitch /\ [][NextSwitch]_vars

\* ---- properties -------------------------------------------------------------------
\* the SEND_DATA frames in the sender-to-receiver direction of the link
InFlightData ==
  {s2r[i].f : i \in {j \in 1 .. Len(s2r) : s2r[j].f.cmd = SEND_DATA}}

\* the sender has received an ACK for sequence number seq
Acked(seq) == \E i \in 1 .. Len(acked) : acked[i].seq = seq

RECURSIVE SumLen(_)
SumLen(log) == IF log = <<>> THEN 0 ELSE Head(log).len + SumLen(Tail(log))

\* the receiver's read returns exactly the frame at the head of the link
ReceiverReads(cmd) ==
  /\ Whole(s2r) /\ Head(s2r).f.cmd = cmd
  /\ s2r' = Tail(s2r)

\* the sender's read returns exactly the frame at the head of the link
SenderReads(cmd) ==
  /\ Whole(r2s) /\ Head(r2s).f.cmd = cmd
  /\ r2s' = Tail(r2s)

\* the frames a step appended to a direction of the link
Appended(old, new) == SubSeq(new, Len(old) + 1, Len(new))

\* C1: whenever FileReceiver.start_transfer has returned True, the destination
\* file exists, has the size the sender declared, which is the size of the
\* source file, and holds the source file's bytes at every offset.
C1_SizeFidelity ==
  rPc = "done" =>
    /\ exists /\ handle = "closed"
    /\ Len(disk) = file_size /\ file_size = file_size_s
    /\ \A i \in 1 .. file_size_s : disk[i] = FileData(file_size_s)[i]

C1_Witness == rPc = "done" /\ sPc = "done" /\ Len(disk) >= 2


\* C2: when receive_data_package reads a SEND_DATA whose sequence number is not
\* the expected one (a duplicate of an accepted frame), it replies NACK with
\* that number, writes nothing and leaves recv_size and _expected_seq as they
\* are; whenever it reads a SEND_DATA with the expected number, also after such
\* a duplicate, it replies ACK, appends the payload and advances both.
C2_DuplicateNack ==
  [][(rPc = "data" /\ ReceiverReads(SEND_DATA)) =>
       LET f == Head(s2r).f
           out == Appended(r2s, r2s')
       IN /\ out # <<>>
          /\ IF f.a # expected_seq
             THEN /\ out[1].f = AckFrame(NACK, f.a)
                  /\ disk' = disk
                  /\ recv_size' = recv_size
                  /\ expected_seq' = expected_seq
             ELSE /\ out[1].f = AckFrame(ACK, f.a)
                  /\ disk' = disk \o f.data
                  /\ recv_size' = recv_size + Len(f.data)
                  /\ expected_seq' = (expected_seq + 1) % 65536]_vars

\* the receiver answered NACK to sequence number k and later ACK to k + 1
C2_Witness ==
  \E i, j \in 1 .. Len(r2s) :
    /\ i < j
    /\ r2s[i].f.cmd = NACK /\ r2s[i].f.plen = 2
    /\ r2s[j].f = AckFrame(ACK, (r2s[i].f.a + 1) % 65536)
    /\ recv_size = 2

\* C3: the sender's send_size equals the sum of the payload lengths of the
\* SEND_DATA frames for which it has received the matching ACK.
C3_SendCursor == send_size = SumLen(acked)

C3_Witness == acked # <<>> /\ send_size >= 2

\* C4: _seq_id changes only in a step in which the sender reads an ACK carrying
\* the current _seq_id, _expected_seq changes only in a step in which the
\* receiver reads a SEND_DATA carrying the current _expected_seq, and each
\* change is an increment by one modulo 2^16.
C4_SeqAdvance ==
  [][/\ seq_id' # seq_id =>
          /\ sPc = "ack" /\ SenderReads(ACK)
          /\ Head(r2s).f.a = seq_id
          /\ seq_id' = (seq_id + 1) % 65536
     /\ expected_seq' # expected_seq =>
          /\ rPc = "data" /\ ReceiverReads(SEND_DATA)
          /\ Head(s2r).f.a = expected_seq
          /\ expected_seq' = (expected_seq + 1) % 65536]_vars

\* both counters have advanced from 65535 to 0
C4_Witness == seq_id = 0 /\ expected_seq = 0 /\ acked # <<>> /\ recv_size > 0

\* C5: recv_size never exceeds the declared file size.
C5_RecvBound == recv_size <= file_size

C7_OversizeNack ==
  [][(sPc = "serve" /\ SenderReads(REQUEST_DATA)
        /\ Head(r2s).f.b > (IF negotiated_chunk_size # None
                            THEN negotiated_chunk_size
                            ELSE s_max_data_length)) =>
       /\ Appended(s2r, s2r') =
            <<Item(ChunkNack(seq_id, IF negotiated_chunk_size # None
                                     THEN negotiated_chunk_size
                                     ELSE s_max_data_length))>>
       /\ send_size' = send_size /\ seq_id' = seq_id]_vars

\* C8 (the step the completion rests on): when the receiver reads the
\* sender's NACK {seq, advised} and goes on with the chunk, it sets its chunk
\* size to the advised value and reissues the request for the same offset with
\* a length of at most the advised value.
C8_ReissueWithinAdvice ==
  [][(rPc = "data" /\ ReceiverReads(NACK) /\ Head(s2r).f.plen = 4
        /\ rPc' = "data") =>
       LET out == Appended(r2s, r2s')
       IN /\ max_data_length' = Head(s2r).f.b
          /\ out # <<>>
          /\ out[1].f.cmd = REQUEST_DATA
          /\ out[1].f.a = recv_size
          /\ out[1].f.b <= Head(s2r).f.b]_vars

\* C9: the receiver's chunk size (config.max_data_length) never increases, and
\* the sender's effective chunk size never changes.
C9_ChunkNeverGrows ==
  [][/\ max_data_length' <= max_data_length
     /\ negotiated_chunk_size' = negotiated_chunk_size
     /\ s_max_data_length' = s_max_data_length]_vars

\* C10: whenever FileReceiver.start_transfer has returned False after the
\* destination file was opened, the file is closed and no longer exists.
C10_FailedFileDeleted ==
  (rPc = "failed" /\ handle # "none") => (handle = "closed" /\ ~exists)

\* C11: for each chunk the sender makes at most retry_count retransmissions
\* after the first write; when the last attempt ends without the ACK for the
\* current sequence number, start_transfer fails with send_size and _seq_id
\* as they were, and it fails only then.
C11_RetryBound ==
  [][/\ sAttempt' <= retry_count
     /\ (sPc = "ack" /\ sPc' = "failed") =>
          /\ sAttempt = retry_count
          /\ send_size' = send_size /\ seq_id' = seq_id
          /\ ~(SenderReads(ACK) /\ Head(r2s).f.a = seq_id)
     /\ (sPc = "ack" /\ sAttempt = retry_count) =>
          Appended(s2r, s2r') = <<>>]_vars

\* the sender gave up a chunk after the first write and retry_count retries
C11_Witness ==
  /\ sPc = "failed" /\ sAttempt = retry_count /\ sLen > 0
  /\ send_size = 0 /\ acked = <<>>

\* C12: once one peer's start_transfer has returned, the other peer's
\* start_transfer eventually returns too (it times out instead of waiting
\* forever); in particular the sender's, when the receiver has stopped.
C12_PeerTimesOut ==
  /\ (rPc \in {"done", "failed"}) ~> (sPc \in {"done", "failed"})
  /\ (sPc \in {"done", "failed"}) ~> (rPc \in {"done", "failed"})

\* C13: the receiver gives up the size handshake (no REPLY_FILE_SIZE with a
\* non-zero size has arrived) only when request_timeout has elapsed since it
\* sent the first REQUEST_FILE_SIZE.
C13_SizeWaitsRequestTimeout ==
  [][(rPc = "size" /\ rPc' = "failed"
        /\ ~(ReceiverReads(REPLY_FILE_SIZE) /\ Head(s2r).f.a > 0)) =>
       rWaited' >= DEFAULT_REQUEST_TIMEOUT]_vars

\* C14: a batch receive in which files were stored and no start_transfer
\* failed does not end in failure, however much time has passed.
C14_NoSessionLimit == (brPc = "failed" /\ dest # {}) => anyFailed

\* C15: a batch over a link that delivers every frame, once the sender has
\* announced the size of one of its files, goes on to its end: the empty name
\* is exchanged and start_batch_send and start_batch_receive both return
\* success.
C15_BatchCompletes ==
  (bsPc = "transfer" /\ sPc = "serve") ~> (bsPc = "done" /\ brPc = "done")

\* C16: when the batch receiver reads a REPLY_FILE_NAME frame, the frame
\* carries a name of the sender's list and the receiver decodes that name's
\* first 128 bytes: it ends the batch for the empty name and stores the file
\* under the decoded name otherwise.
C16_NameRoundTrip ==
  [][(brPc = "name_wait" /\ ReceiverReads(REPLY_FILE_NAME)) =>
       \E name \in {<<>>} \cup {source[i].name : i \in 1 .. Len(source)} :
         /\ Head(s2r).f.data = filename_payload(name)
         /\ IF name = <<>> THEN brPc' = "done"
            ELSE /\ brPc' = "transfer"
                 /\ save_path' =
                      Append(folder_path,
                             SubSeq(name, 1, Min(Len(name), 128)))]_vars

\* C17: whenever the batch receiver has opened a destination file, the file
\* lies inside the base directory, and so does every file it has stored.
C17_PathInsideBase ==
  /\ (brPc = "transfer" /\ handle # "none") =>
        Inside(Resolve(save_path, <<>>), folder_path)
  /\ \A d \in dest : Inside(d.path, folder_path)

\* C18: when both sides of a batch have returned success, every empty file of
\* the sender's folder exists with size 0 in the receiver's folder.
C18_EmptyFileInBatch ==
  (bsPc = "done" /\ brPc = "done") =>
    \A i \in 1 .. Len(source) :
      source[i].size = 0 => \E d \in dest : d.data = <<>>

\* C19: a negotiate_capability call fails when the peer's list shares no rate
\* with supported_baudrates; otherwise it selects the first rate of
\* supported_baudrates that the peer's list holds and, when the peer answers
\* with a CAPABILITY_ACK of the same session id and accept_status 1, returns
\* that rate.
C19_NegotiateSelects ==
  [][(probeCall' # probeCall /\ probeCall'.op = "negotiate_capability") =>
       LET peer == probeCall'.supported_baudrates
           shared == {i \in 1 .. Len(supported_baudrates) :
                        \E j \in 1 .. Len(peer) :
                          peer[j] = supported_baudrates[i]}
           first == CHOOSE i \in shared : \A k \in shared : i <= k
       IN IF shared = {}
          THEN probeResult' = None
          ELSE /\ target_baudrate' = supported_baudrates[first]
               /\ probeCall'.answer = "accept" =>
                    probeResult' = supported_baudrates[first]]_vars

\* C20: a SWITCH_ACK is written and the port rate is changed only while a
\* SWITCH_BAUDRATE is handled whose session id is the recorded session_id and
\* whose new_baudrate is the recorded target_baudrate, and the new port rate is
\* that rate; for any other SWITCH_BAUDRATE handle_baudrate_switch returns
\* False, writes nothing and leaves the port rate as it is.
C20_SwitchOnlyOnMatch ==
  [][LET match == /\ probeIn.cmd = SWITCH_BAUDRATE
                  /\ probeIn.len = 10
                  /\ probeIn.session_id = session_id
                  /\ probeIn.new_baudrate = target_baudrate
     IN /\ baudrate' # baudrate => (match /\ baudrate' = target_baudrate)
        /\ (\E i \in 1 .. Len(Appended(probeOut, probeOut')) :
              Appended(probeOut, probeOut')[i].cmd = SWITCH_ACK) =>
             (match /\ Appended(probeOut, probeOut') = <<SwitchAck(session_id)>>)
        /\ (probeIn.cmd = SWITCH_BAUDRATE /\ probeIn'.cmd = None /\ ~match) =>
             /\ probeResult' = FALSE
             /\ probeOut' = probeOut
             /\ baudrate' = baudrate]_vars

\* a CAPABILITY_NEGO was accepted and then the SWITCH_BAUDRATE of its session:
\* both were acknowledged and the port runs at the negotiated rate
C20_Witness ==
  /\ Len(probeOut) = 2
  /\ probeOut[1].cmd = CAPABILITY_ACK /\ probeOut[1].accept_status = 1
  /\ probeOut[1].session_id = session_id
  /\ probeOut[2] = SwitchAck(session_id)
  /\ probeResult = TRUE
  /\ baudrate = target_baudrate /\ baudrate # PROBE_BAUDRATE

\* C21: send_probe_request reports failure only when 3 minutes (180 s) have
\* passed since the search began, having re-sent PROBE_REQUEST every 3 s
\* (60 requests and more).
C21_ProbeRetries ==
  probePc = "failed" => (probeWaited >= 180 /\ Len(probeOut) >= 60)


\* C22: a stream of garbage bytes followed by one valid frame: once the whole
\* stream has been read and the unpacker can do nothing more with its buffer,
\* the frame has been yielded and no more than the garbage and the frame were
\* consumed.
C22_Resynchronises ==
  (/\ framePc \in {"stream", "returned"} /\ port = <<>>
   /\ (framePc = "returned" \/ StreamStep.kind = "wait"))
  => /\ \E i \in 1 .. Len(yielded) :
          yielded[i].cmd = fCmd /\ yielded[i].data = fData
     /\ consumed <= Len(garbage) + Len(packed)

\* C23: a read_frame on a port that holds a whole valid frame, followed or not
\* by other bytes, returns that frame, whatever the number of bytes the port's
\* read returns.
C23_ReadFrameFindsFrame ==
  [][(framePc = "port" /\ consumed = 0 /\ consumed' > 0)
     => readResult' = [cmd |-> fCmd, data |-> fData]]_vars

\* C24: unpack_frame of what pack_frame returned is the command, the length of
\* the payload, the payload and the checksum of the payload.
C24_PackUnpackRoundTrip ==
  (framePc = "unpacked" /\ flipped = 0)
  => unpacked = [cmd |-> fCmd, data_len |-> Len(fData), data |-> fData,
                 crc |-> SumBytes(fData) % 65536]

C24_Witness ==
  /\ framePc = "unpacked" /\ flipped = 0
  /\ Len(fData) > 255 /\ unpacked.data = fData
  /\ unpacked.crc < SumBytes(fData)

\* C25: unpack_frame fails on a packed frame in which one byte of the payload
\* or of the checksum has another value.
C25_FlippedByteDetected ==
  (framePc = "unpacked" /\ flipped # 0) => unpacked = NoUnpack

C25_Witness ==
  /\ framePc = "unpacked" /\ flipped = Len(packed)
  /\ Len(fData) > 255 /\ unpacked = NoUnpack

\* C26 as stated: the size negotiate_chunk_size returns is at most the smaller
\* of its two arguments and at least 512.
C26_AtMostMinAtLeast512 ==
  chunkPc = "done"
  => chunk_result <= Min(chunk_s, chunk_r) /\ chunk_result >= 512

\* C26, amended: the size negotiate_chunk_size returns is at least 512, and it
\* is at most the smaller of its two arguments whenever that is at least 512.
C26_ClampedMin ==
  chunkPc = "done"
  => /\ chunk_result >= 512
     /\ Min(chunk_s, chunk_r) >= 512 => chunk_result <= Min(chunk_s, chunk_r)

C26_Witness ==
  /\ chunkPc = "done" /\ chunk_s = 2048 /\ chunk_r = 1024
  /\ chunk_result = 1024

\* C27: retry_call calls func at most max_retry + 1 times; it returns at the
\* first truthy result, with that result; every sleep is the backoff of the
\* failed attempt before it and is followed by another attempt; after max_retry
\* + 1 failed attempts it returns None, with one sleep fewer than attempts.
C27_RetryCall ==
  LET calls == Len(rcLog)
  IN /\ calls <= rcMaxRetry + 1
     /\ \A i \in 1 .. (calls - 1) : rcLog[i] \in {None, 0}
     /\ \A i \in 1 .. Len(rcSleeps) :
          rcSleeps[i] \in exponential_backoff(rcBase, i - 1)
     /\ rcPc = "call" => Len(rcSleeps) = calls
     /\ rcPc = "sleep" => Len(rcSleeps) = calls - 1 /\ calls <= rcMaxRetry
     /\ rcPc = "returned"
        => /\ Len(rcSleeps) = calls - 1
           /\ IF rcLog[calls] \in {None, 0}
              THEN rcResult = None /\ calls = rcMaxRetry + 1
              ELSE rcResult = rcLog[calls]

C27_Witness ==
  /\ rcPc = "returned" /\ rcMaxRetry = 2 /\ rcBase = SIZE_BASE_DELAY
  /\ rcLog = <<None, 0, 0>> /\ rcResult = None
  /\ rcSleeps = <<20, 44>>

\* C28: a _queue_frame call that found the queue full ends with the frame at
\* the end of the queue, where it took the place of the oldest one, and with
\* frames_dropped one higher; the queue never holds more than its capacity.
C28_OverflowDropsOldest ==
  [][\A t \in Threads :
       /\ (rdPc[t] = "full" /\ rdPc'[t] = "reput")
          => frame_queue' = Tail(frame_queue)
       /\ (rdPc[t] \in {"full", "reput"} /\ rdPc'[t] = "read")
          => /\ frame_queue' = Append(frame_queue, rdFrame[t])
             /\ frames_dropped' = frames_dropped + 1
       /\ Len(frame_queue') <= QueueCapacity]_vars

\* C29: an IoThread never has more than one reader thread alive.
C29_OneReader == Cardinality(alive) <= 1

\* C30: after a stop() of a started IoThread has returned True, and until a
\* start(), no frame is added to the queue, and a get_frame() that waits on
\* the empty queue without timeout returns.
C30_StopClosesQueue ==
  /\ [][stopped => Len(frame_queue') <= Len(frame_queue)]_vars
  /\ (stopped /\ thread # 0 /\ consPc = "blocked") ~> (consPc # "blocked")

\* the final name of the returned path
FinalName == safe_path[Len(safe_path)]

\* C31: create_safe_path returns, for every relative name, a path that lies
\* inside the base directory after resolution and whose final name has none
\* of the characters < > : " / \ | ? * and at most 255 characters, also when
\* a collision suffix is appended
C31_SafePath ==
  pathPc \in {"done", "raised"} =>
    /\ pathPc = "done"
    /\ Inside(Resolve(safe_path, <<>>), folder_path)
    /\ \A i \in 1 .. Len(FinalName) : FinalName[i] \notin unsafe_chars
    /\ Len(FinalName) <= NAME_LIMIT

\* _wait_for_data_request reads the whole REQUEST_DATA frame at the head of
\* the link in this step
ServesRequest ==
  /\ sPc = "serve" /\ Whole(r2s) /\ Head(r2s).f.cmd = REQUEST_DATA
  /\ r2s' = Tail(r2s)

\* C32: the sender checks the address and clamps at the end of the file
\* before it checks the chunk size: a REQUEST_DATA with addr > file_size is
\* fatal whatever its len, and one with addr <= file_size and
\* addr + len > file_size is answered with exactly file_size - addr bytes
\* whenever file_size - addr is at most the effective chunk size
C32_AddressCheckFirst ==
  [][ServesRequest =>
       LET addr == Head(r2s).f.a
           length == Head(r2s).f.b
           effective_chunk_size ==
             get_effective_chunk_size(negotiated_chunk_size, s_max_data_length)
       IN /\ addr > file_size_s => sPc' = "failed"
          /\ (addr <= file_size_s /\ addr + length > file_size_s
                /\ file_size_s - addr <= effective_chunk_size)
             => s2r' = write(s2r, DataFrame(seq_id,
                         get_file_data(file_size_s, addr, file_size_s - addr)))
     ]_vars

\* C33: after a successful capability exchange the engines use the negotiated
\* chunk size as their effective chunk size: no REQUEST_DATA of the receiver
\* asks for more than the negotiated size and no SEND_DATA of the sender
\* carries a longer payload
C33_NegotiatedChunkUsed ==
  (ExchangeDone /\ rPc # "idle") =>
    /\ \A i \in 1 .. Len(r2s) :
         r2s[i].f.cmd = REQUEST_DATA => r2s[i].f.b <= pm_negotiated_chunk_size
    /\ \A i \in 1 .. Len(s2r) :
         s2r[i].f.cmd = SEND_DATA
           => Len(s2r[i].f.data) <= pm_negotiated_chunk_size

\* C34: in a single-file transfer with retry_count >= 1 and max_retries >= 1
\* in which the link loses exactly one frame (a REPLY_FILE_SIZE, REQUEST_DATA,
\* SEND_DATA or ACK) and delivers every other frame, both peers still finish
\* successfully: neither start_transfer returns False
C34_OneLossSurvived ==
  (retry_count >= 1 /\ max_retries >= 1 /\ corrupted = 1)
    => (sPc # "failed" /\ rPc # "failed")

\* C35: when the transfer of one file of a batch fails on one peer the batch
\* does not stall: the other peer leaves that file too, both meet again at
\* the next file-name handshake and the remaining files are transferred.
\* Here: the receiver's start_transfer has returned False while the sender is
\* still in that file; the sender's start_transfer returns as well and
\* start_batch_send goes on to the next name
C35_BatchGoesOn ==
  (brPc = "transfer" /\ rPc = "failed" /\ bsPc = "transfer")
    ~> (bsPc \in {"wait_name", "done"})

\* C37: the rate switch never leaves the two peers on different rates: when
\* the sender's switch_baudrate has failed (the SWITCH_ACK was lost or came
\* after the wait) the receiver has not changed the rate of its port either
C37_RatesAgree ==
  txPc = "failed" => (baudrate = PROBE_BAUDRATE /\ baudrate = tx_baudrate)

\* C38: a receiver that rejected a CAPABILITY_NEGO because the selected rate
\* is unsupported keeps no session from it: a later SWITCH_BAUDRATE with that
\* session id and that rate is refused, so the rate of the receiver's port is
\* never a rate outside its supported set
C38_RejectedSessionForgotten ==
  /\ Supported(baudrate)
  /\ (~Supported(target_baudrate) /\ target_baudrate # None)
       => \A i \in 1 .. Len(probeOut) : probeOut[i].cmd # SWITCH_ACK

\* every frame of command cmd in the stream ch is at most size bytes long
Fits(ch, cmds, size) ==
  \A i \in 1 .. Len(ch) : ch[i].f.cmd \in cmds => FrameBytes(ch[i].f) <= size

\* C39: for every frame one peer sends during a file transfer, the byte count
\* the other peer passes to read_frame when it waits for that frame is at
\* least the frame's total length; in particular a SEND_DATA frame with a
\* full chunk of max_data_length bytes fits
C39_ReadsFit ==
  /\ sPc = "wait_size" => Fits(r2s, {REQUEST_FILE_SIZE}, 6 + 2)
  /\ rPc = "size" => Fits(s2r, {REPLY_FILE_SIZE}, 6 + 4)
  /\ sPc = "serve" => Fits(r2s, {REQUEST_DATA}, 6 + 4 + 2)
  /\ rPc = "data" => Fits(s2r, {SEND_DATA}, 6 + max_data_length)
  /\ sPc = "ack" => Fits(r2s, {ACK, NACK}, 6 + 2)

\* the frames a reader thread has parsed and not yet finished queueing
InHand == {rdFrame[t] : t \in {u \in Threads : rdPc[u] \in {"put", "full", "reput"}}}

\* the parsed frames that are in nobody's hands: not returned by get_frame,
\* not in the queue, not held by a reader inside _queue_frame
Gone ==
  {f \in 1 .. produced :
     /\ f \notin returned
     /\ f \notin InHand
     /\ \A i \in 1 .. Len(frame_queue) : frame_queue[i] # f}

\* C40: with a consumer taking frames from the queue while the reader runs,
\* every frame the reader parsed is returned by get_frame, still on its way
\* to the consumer, or counted in frames_dropped (a reader that has removed
\* the oldest frame counts it when its _queue_frame call ends)
C40_NoSilentLoss ==
  Cardinality(Gone)
    <= frames_dropped + Cardinality({t \in Threads : rdPc[t] = "reput"})
====
